---------------------------- MODULE Spec2Model ----------------------------
(***************************************************************************)
(* StreamVibe backend: the engagement ledger (likes, views, reports), the  *)
(* video access check, the owner-or-admin mutation guard, the report       *)
(* status handler, comment threads, notices, notifications and accounts,   *)
(* modelled from the request handlers and the schemas.                     *)
(*                                                                         *)
(* A ledger handler runs as a request in a slot.  It suspends at each      *)
(* awaited store call, so it is a chain of steps and the steps of          *)
(* different slots interleave.  Rows carry their _id, and the unique       *)
(* compound indexes of the schemas are enforced by the create operations.  *)
(* The access, mutation and status handlers are one step each, from the    *)
(* request to the answer.                                                  *)
(***************************************************************************)
EXTENDS Integers, Sequences, FiniteSets, TLC

\* Number of request slots: how many requests can be in flight at once.
NumSlots == 2

Slots == 1 .. NumSlots

-----------------------------------------------------------------------------
(* The stored documents *)

UserIds == {"s1", "s2", "t1", "t2", "a1"}
StudentIds == {"s1", "s2"}
VideoIds == {"v1"}
CommentIds == {"c1"}
PlaylistIds == {"p1"}
NoticeIds == {"n1"}

\* enum of Video.year / User.year
YearEnum == {"1st", "2nd", "3rd", "4th"}

\* enum of Report.reason
ReasonEnum == {"spam", "harassment", "off-topic", "inappropriate", "other"}

\* enum of Report.status
StatusEnum == {"pending", "reviewed", "ignored"}

\* enum of Notification.type
NotificationTypeEnum ==
  {"video_comment", "video_like", "video_view", "notice_posted",
   "notice_updated", "playlist_updated", "system_announcement"}

VARIABLES
  users,          \* User collection: id -> [role, branch, year, isApproved]
  videos,         \* Video collection: id -> [teacher, branch, year, specialAccess, views]
  playlists,      \* Playlist collection: id -> [teacher, branch, year, videos]
  notices,        \* Notice collection: id -> [teacher, branch, year]
  comments,       \* Comment collection: id -> [user, video, parentComment]
  likes,          \* Like collection: set of rows [id, video, user]
  views,          \* VideoView collection: set of rows [id, video, user, wt, cp, lp]
  reports,        \* Report collection: set of rows [id, comment, user, reason, details, status]
  notifications,  \* Notification collection: set of rows [id, recipient, type]
  reqs,           \* the request of each slot: handler, arguments, position, response
  resp,           \* the response of the last handler that ran in one step
  trail,          \* observer: results of successive video like toggles of one pair
  viewers,        \* observer: the (user, video) pairs that have called recordView
  disturbed,      \* observer: slots whose pair had a Like row deleted under them
  refused,        \* observer: the principals getVideo has answered 403
  before,         \* observer: the comments as a deleteComment request found them
  inbox,          \* observer: the notifications as the request of each slot found them
  tokens,         \* the ids of the users a token has been issued for
  notes,          \* Note collection: set of rows [student, video]
  admins          \* observer: the ids of the users ever stored with role admin

storeVars == <<users, videos, playlists, notices, comments, likes, views,
               reports, notifications>>
vars == <<users, videos, playlists, notices, comments, likes, views, reports,
          notifications, reqs, resp, trail, viewers, disturbed, refused,
          before, inbox, tokens, notes, admins>>

-----------------------------------------------------------------------------
(* Requests *)

\* The body of a createNotice request: whether the required fields other
\* than branch and year are all present, the branch and year it names, and
\* whether files are attached.
NoBody == [complete |-> FALSE, branch |-> "none", year |-> "none",
           files |-> FALSE]

Idle ==
  [op |-> "none", user |-> "none", target |-> "none", owner |-> "none",
   wt |-> 0, cp |-> 0, lp |-> 0, reason |-> "", details |-> "",
   pc |-> "idle", found |-> 0, status |-> 0, liked |-> "na",
   error |-> "none", parent |-> "none", made |-> "none", body |-> NoBody]

NoResp == [op |-> "none", user |-> "none", target |-> "none", status |-> 0]

\* A slot takes a new request when it is idle or has answered the last one.
Free(s) == reqs[s].pc \in {"idle", "done"}

InFlight(s) == reqs[s].pc \notin {"idle", "done"}

\* res.status(code).json(...): the handler answers and ends.
Respond(r, code, liked) ==
  [r EXCEPT !.pc = "done", !.status = code, !.liked = liked]

NewReq(op, u, target) ==
  [Idle EXCEPT !.op = op, !.user = u, !.target = target]

\* res.status(code).json({success: false, error: msg})
Fail(r, code, msg) == [Respond(r, code, "na") EXCEPT !.error = msg]

\* A protect that admits every stored user.
Protect_NoApproval(u) == IF u \notin DOMAIN users THEN 401 ELSE 0

\* protect: 401 when the token's user is not stored, 403 when not approved.
Protect(u) ==
  IF u \notin DOMAIN users THEN 401
  ELSE IF ~users[u].isApproved THEN 403
  ELSE 0

\* authorize(...roles): 403 unless the user's role is one of roles.
Authorize(u, roles) ==
  IF users[u].role \notin roles THEN 403 ELSE 0

-----------------------------------------------------------------------------
(* Like collection *)

LikeOps == {"toggleLike", "likeVideo"}

LikeRows(v, u) == {r \in likes : r.video = v /\ r.user = u}

\* Like.findOne({video, user}): the _id of a matching row, 0 for null.
LikeFindOne(v, u) ==
  IF LikeRows(v, u) = {} THEN 0
  ELSE (CHOOSE r \in LikeRows(v, u) :
          \A q \in LikeRows(v, u) : r.id <= q.id).id

LikeDuplicateKey_NoIndex(v, u) == FALSE

\* LikeSchema.index({video: 1, user: 1}, {unique: true}): an insert of a
\* second row of the same (video, user) is rejected with a duplicate key error.
LikeDuplicateKey(v, u) == LikeRows(v, u) # {}

\* A new ObjectId: one no stored row has and no request in flight holds.
NewLikeId ==
  CHOOSE n \in 1 .. (Cardinality(likes) + NumSlots + 1) :
    /\ \A r \in likes : r.id # n
    /\ \A s \in Slots : ~(reqs[s].op \in LikeOps /\ reqs[s].found = n)
    /\ \A m \in 1 .. (n - 1) :
         \/ \E r \in likes : r.id = m
         \/ \E s \in Slots : reqs[s].op \in LikeOps /\ reqs[s].found = m

\* existingLike.remove() / Like.findByIdAndDelete(_id)
LikeDeleteById(id) == {r \in likes : r.id # id}

\* Notification.create(doc) runs the schema validators: type must be one of
\* the enum, and recipient, title and message are required.
NotificationValid(doc) ==
  /\ doc.recipient # "none"
  /\ doc.type \in NotificationTypeEnum
  /\ doc.title # ""
  /\ doc.message # ""

NewNotificationId ==
  CHOOSE n \in 1 .. (Cardinality(notifications) + 1) :
    \A r \in notifications : r.id # n

NotificationInsert(doc) ==
  notifications \cup
    {[id |-> NewNotificationId, recipient |-> doc.recipient, type |-> doc.type]}

\* The notification the like handlers build for the video owner.
LikeNotification(owner) ==
  [recipient |-> owner, type |-> "like", title |-> "New Like",
   message |-> "liked your video"]

\* Video has no isApproved path: the property reads undefined on every
\* document, which the access checks use as false.
VideoIsApproved(v) == FALSE

\* The pairs of stored branch values of which the first is a proper
\* substring of the second.
ProperSubstrings == {<<"CSE", "CSE-AI">>}

\* String.prototype.includes: field.includes(value), a substring test.
IncludesStr(field, value) ==
  \/ field = value
  \/ <<value, field>> \in ProperSubstrings

ToggleLikeHasAccess(u, v) ==
  \/ /\ VideoIsApproved(v)
     /\ IncludesStr(videos[v].branch, users[u].branch)
     /\ IncludesStr(videos[v].year, users[u].year)
  \/ u \in videos[v].specialAccess

\* toggleLike: Video.findById, the student access check, Like.findOne.
toggleLike(s, u, v) ==
  /\ Free(s)
  /\ LET r == NewReq("toggleLike", u, v) IN
       reqs' = [reqs EXCEPT ![s] =
         IF Protect(u) # 0 THEN Respond(r, Protect(u), "na")
         ELSE IF v \notin DOMAIN videos THEN Respond(r, 404, "na")
         ELSE IF users[u].role = "student" /\ ~ToggleLikeHasAccess(u, v)
           THEN Respond(r, 403, "na")
         ELSE [r EXCEPT !.pc = "write", !.owner = videos[v].teacher,
                        !.found = LikeFindOne(v, u)]]
  /\ UNCHANGED <<storeVars, resp>>

\* toggleLike: existingLike.remove() and answer, or Like.create; an error
\* thrown by either lands in the handler's catch, which answers 400.
toggleLikeWrite(s) ==
  LET r == reqs[s] IN
  /\ r.op = "toggleLike" /\ r.pc = "write"
  /\ IF r.found # 0
       THEN /\ likes' = LikeDeleteById(r.found)
            /\ reqs' = [reqs EXCEPT ![s] = Respond(r, 200, "false")]
       ELSE IF LikeDuplicateKey(r.target, r.user)
         THEN /\ likes' = likes
              /\ reqs' = [reqs EXCEPT ![s] = Respond(r, 400, "na")]
         ELSE /\ likes' = likes \cup
                   {[id |-> NewLikeId, video |-> r.target, user |-> r.user]}
              /\ reqs' = [reqs EXCEPT ![s] =
                   IF r.owner # r.user
                     THEN [r EXCEPT !.pc = "notify"]
                     ELSE Respond(r, 200, "true")]
  /\ UNCHANGED <<users, videos, playlists, notices, comments, views, reports,
                 notifications, resp>>

\* toggleLike: await Notification.create for the owner; a rejection is not
\* caught locally, so it lands in the handler's catch, which answers 400.
toggleLikeNotify(s) ==
  LET r == reqs[s] IN
  /\ r.op = "toggleLike" /\ r.pc = "notify"
  /\ IF NotificationValid(LikeNotification(r.owner))
       THEN /\ notifications' = NotificationInsert(LikeNotification(r.owner))
            /\ reqs' = [reqs EXCEPT ![s] = Respond(r, 200, "true")]
       ELSE /\ notifications' = notifications
            /\ reqs' = [reqs EXCEPT ![s] = Respond(r, 400, "na")]
  /\ UNCHANGED <<users, videos, playlists, notices, comments, likes, views,
                 reports, resp>>

\* likeVideo: Video.findById and Like.findOne; no access check.
likeVideo(s, u, v) ==
  /\ Free(s)
  /\ LET r == NewReq("likeVideo", u, v) IN
       reqs' = [reqs EXCEPT ![s] =
         IF Protect(u) # 0 THEN Respond(r, Protect(u), "na")
         ELSE IF v \notin DOMAIN videos THEN Respond(r, 404, "na")
         ELSE [r EXCEPT !.pc = "write", !.owner = videos[v].teacher,
                        !.found = LikeFindOne(v, u)]]
  /\ UNCHANGED <<storeVars, resp>>

\* likeVideo: Like.findByIdAndDelete and answer liked false, or Like.create,
\* whose error is answered 500 'Failed to like video'.
likeVideoWrite(s) ==
  LET r == reqs[s] IN
  /\ r.op = "likeVideo" /\ r.pc = "write"
  /\ IF r.found # 0
       THEN /\ likes' = LikeDeleteById(r.found)
            /\ reqs' = [reqs EXCEPT ![s] = Respond(r, 200, "false")]
       ELSE IF LikeDuplicateKey(r.target, r.user)
         THEN /\ likes' = likes
              /\ reqs' = [reqs EXCEPT ![s] = Respond(r, 500, "na")]
         ELSE /\ likes' = likes \cup
                   {[id |-> NewLikeId, video |-> r.target, user |-> r.user]}
              /\ reqs' = [reqs EXCEPT ![s] =
                   IF r.owner # "none" /\ r.owner # r.user
                     THEN [r EXCEPT !.pc = "notify"]
                     ELSE Respond(r, 200, "true")]
  /\ UNCHANGED <<users, videos, playlists, notices, comments, views, reports,
                 notifications, resp>>

\* likeVideo: Notification.create inside its own try/catch: a rejection is
\* logged and the handler still answers liked true.
likeVideoNotify(s) ==
  LET r == reqs[s] IN
  /\ r.op = "likeVideo" /\ r.pc = "notify"
  /\ notifications' =
       IF NotificationValid(LikeNotification(r.owner))
         THEN NotificationInsert(LikeNotification(r.owner))
         ELSE notifications
  /\ reqs' = [reqs EXCEPT ![s] = Respond(r, 200, "true")]
  /\ UNCHANGED <<users, videos, playlists, notices, comments, likes, views,
                 reports, resp>>

\* unlikeVideo: Video.findById, then video.likes.includes(...) on the
\* unpopulated count virtual, which throws; the catch answers 500.  No Like
\* row is read or written.
unlikeVideo(s, u, v) ==
  /\ Free(s)
  /\ LET r == NewReq("unlikeVideo", u, v) IN
       reqs' = [reqs EXCEPT ![s] =
         IF Protect(u) # 0 THEN Respond(r, Protect(u), "na")
         ELSE IF v \notin DOMAIN videos THEN Respond(r, 404, "na")
         ELSE Respond(r, 500, "na")]
  /\ UNCHANGED <<storeVars, resp>>

\* likeController.likeVideo: Video.findById, 404 when there is none.
likeControllerLikeVideo(s, u, v) ==
  /\ Free(s)
  /\ LET r == NewReq("likeController.likeVideo", u, v) IN
       reqs' = [reqs EXCEPT ![s] =
         IF Protect(u) # 0 THEN Respond(r, Protect(u), "na")
         ELSE IF v \notin DOMAIN videos THEN Respond(r, 404, "na")
         ELSE [r EXCEPT !.pc = "create"]]
  /\ UNCHANGED <<storeVars, resp>>

\* likeController.likeVideo: Like.create; the duplicate key error (code
\* 11000) is answered 400, the created row 201.
likeControllerLikeVideoCreate(s) ==
  LET r == reqs[s] IN
  /\ r.op = "likeController.likeVideo" /\ r.pc = "create"
  /\ IF LikeDuplicateKey(r.target, r.user)
       THEN /\ likes' = likes
            /\ reqs' = [reqs EXCEPT ![s] = Respond(r, 400, "na")]
       ELSE /\ likes' = likes \cup
                 {[id |-> NewLikeId, video |-> r.target, user |-> r.user]}
            /\ reqs' = [reqs EXCEPT ![s] = Respond(r, 201, "na")]
  /\ UNCHANGED <<users, videos, playlists, notices, comments, views, reports,
                 notifications, resp>>

\* likeController.unlikeVideo: Like.findOneAndDelete({video, user}), then 200
\* whether a row was found or not.
likeControllerUnlikeVideo(s, u, v) ==
  /\ Free(s)
  /\ LET r == NewReq("likeController.unlikeVideo", u, v) IN
       IF Protect(u) # 0
         THEN /\ likes' = likes
              /\ reqs' = [reqs EXCEPT ![s] = Respond(r, Protect(u), "na")]
         ELSE /\ likes' = LikeDeleteById(LikeFindOne(v, u))
              /\ reqs' = [reqs EXCEPT ![s] = Respond(r, 200, "na")]
  /\ UNCHANGED <<users, videos, playlists, notices, comments, views, reports,
                 notifications, resp>>

-----------------------------------------------------------------------------
(* VideoView collection *)

ViewRows(v, u) == {r \in views : r.video = v /\ r.user = u}

\* VideoView.findOne({video, user}): the _id of a matching row, 0 for null.
ViewFindOne(v, u) ==
  IF ViewRows(v, u) = {} THEN 0
  ELSE (CHOOSE r \in ViewRows(v, u) :
          \A q \in ViewRows(v, u) : r.id <= q.id).id

ViewDuplicateKey_NoIndex(v, u) == FALSE

\* VideoViewSchema.index({video: 1, user: 1}, {unique: true})
ViewDuplicateKey(v, u) == ViewRows(v, u) # {}

NewViewId ==
  CHOOSE n \in 1 .. (Cardinality(views) + NumSlots + 1) :
    /\ \A r \in views : r.id # n
    /\ \A s \in Slots : ~(reqs[s].op = "recordView" /\ reqs[s].found = n)
    /\ \A m \in 1 .. (n - 1) :
         \/ \E r \in views : r.id = m
         \/ \E s \in Slots : reqs[s].op = "recordView" /\ reqs[s].found = m

\* An assignment of the input whatever it is.
OrElse_Always(a, b) == a

\* a || b on numbers: b when a is 0 or undefined (undefined is sent as 0).
OrElse(a, b) == IF a # 0 THEN a ELSE b

\* The metric values a request body carries (0 stands for absent or zero).
MetricInputs == {0, 5}

IncViews_Twice(v) ==
  IF v \in DOMAIN videos
    THEN [videos EXCEPT ![v].views = @ + 2]
    ELSE videos

\* Video.findByIdAndUpdate(videoId, {$inc: {views: 1}}): an atomic
\* increment of the stored counter; nothing when the video is not stored.
IncViews(v) ==
  IF v \in DOMAIN videos
    THEN [videos EXCEPT ![v].views = @ + 1]
    ELSE videos

\* recordView: VideoView.findOne for (videoId, user).
recordView(s, u, v, wt, cp, lp) ==
  /\ Free(s)
  /\ LET r == [NewReq("recordView", u, v) EXCEPT !.wt = wt, !.cp = cp, !.lp = lp] IN
       reqs' = [reqs EXCEPT ![s] =
         IF Protect(u) # 0 THEN Respond(r, Protect(u), "na")
         ELSE [r EXCEPT !.pc = "write", !.found = ViewFindOne(v, u),
                        !.owner = IF v \in DOMAIN videos
                                    THEN videos[v].teacher ELSE "none"]]
  /\ UNCHANGED <<storeVars, resp>>

\* recordView: update and save the row that was found, or VideoView.create;
\* a duplicate key error lands in the catch, which answers 500.
recordViewWrite(s) ==
  LET r == reqs[s] IN
  /\ r.op = "recordView" /\ r.pc = "write"
  /\ IF r.found # 0
       THEN IF \E row \in views : row.id = r.found
         THEN /\ views' =
                   {IF row.id = r.found
                      THEN [row EXCEPT !.wt = OrElse(r.wt, row.wt),
                                       !.cp = OrElse(r.cp, row.cp),
                                       !.lp = OrElse(r.lp, row.lp)]
                      ELSE row : row \in views}
              /\ reqs' = [reqs EXCEPT ![s] = Respond(r, 200, "na")]
         ELSE /\ views' = views
              /\ reqs' = [reqs EXCEPT ![s] = Respond(r, 500, "na")]
       ELSE IF ViewDuplicateKey(r.target, r.user)
         THEN /\ views' = views
              /\ reqs' = [reqs EXCEPT ![s] = Respond(r, 500, "na")]
         ELSE /\ views' = views \cup
                   {[id |-> NewViewId, video |-> r.target, user |-> r.user,
                     wt |-> OrElse(r.wt, 0), cp |-> OrElse(r.cp, 0),
                     lp |-> OrElse(r.lp, 0)]}
              /\ reqs' = [reqs EXCEPT ![s] = [r EXCEPT !.pc = "inc"]]
  /\ UNCHANGED <<users, videos, playlists, notices, comments, likes, reports,
                 notifications, resp>>

\* recordView: the view counter's increment, then the answer.
recordViewInc(s) ==
  LET r == reqs[s] IN
  /\ r.op = "recordView" /\ r.pc = "inc"
  /\ videos' = IncViews(r.target)
  /\ reqs' = [reqs EXCEPT ![s] = Respond(r, 200, "na")]
  /\ UNCHANGED <<users, playlists, notices, comments, likes, views, reports,
                 notifications, resp>>

-----------------------------------------------------------------------------
(* Report collection *)

ReportOps == {"createReport", "cancelReport"}

ReportRows(c, u) == {r \in reports : r.comment = c /\ r.user = u}

\* A lookup that never finds a report.
ReportFindOne_Null(c, u) == 0

\* A lookup that forgets the user: the oldest report on the comment.
ReportFindOne_AnyUser(c, u) ==
  IF {r \in reports : r.comment = c} = {} THEN 0
  ELSE (CHOOSE r \in {q \in reports : q.comment = c} :
          \A q \in {x \in reports : x.comment = c} : r.id <= q.id).id

\* Report.findOne({comment, user}): the _id of a matching row, 0 for null.
ReportFindOne(c, u) ==
  IF ReportRows(c, u) = {} THEN 0
  ELSE (CHOOSE r \in ReportRows(c, u) :
          \A q \in ReportRows(c, u) : r.id <= q.id).id

ReportDuplicateKey_NoIndex(c, u) == FALSE

\* ReportSchema.index({comment: 1, user: 1}, {unique: true})
ReportDuplicateKey(c, u) == ReportRows(c, u) # {}

NewReportId ==
  CHOOSE n \in 1 .. (Cardinality(reports) + NumSlots + 1) :
    /\ \A r \in reports : r.id # n
    /\ \A s \in Slots : ~(reqs[s].op \in ReportOps /\ reqs[s].found = n)
    /\ \A m \in 1 .. (n - 1) :
         \/ \E r \in reports : r.id = m
         \/ \E s \in Slots : reqs[s].op \in ReportOps /\ reqs[s].found = m

\* ReportSchema validators: reason is one of the enum, details is required
\* when reason is 'other' ("" stands for undefined).
ReportValid(reason, details) ==
  /\ reason \in ReasonEnum
  /\ reason = "other" => details # ""

\* The reason and details values a request body carries ("" for absent).
ReasonInputs == {"", "spam", "other", "bogus"}
DetailsInputs == {"", "text"}

OwnComment_Never(c, u) == FALSE

\* comment.user.toString() === req.user._id.toString()
OwnComment(c, u) == comments[c].user = u

\* createReport: input validation, Comment.findById, the own-comment check
\* and Report.findOne.
createReport(s, u, c, reason, details) ==
  /\ Free(s)
  /\ LET r == [NewReq("createReport", u, c) EXCEPT
                 !.reason = reason, !.details = details] IN
       reqs' = [reqs EXCEPT ![s] =
         IF Protect(u) # 0 THEN Respond(r, Protect(u), "na")
         ELSE IF c = "none" \/ reason = ""
           THEN Fail(r, 400, "Please provide comment ID and reason")
         ELSE IF c \notin DOMAIN comments
           THEN Fail(r, 404, "Comment not found")
         ELSE IF OwnComment(c, u)
           THEN Fail(r, 400, "You cannot report your own comment")
         ELSE IF ReportFindOne(c, u) # 0
           THEN [Fail(r, 400, "You have already reported this comment")
                   EXCEPT !.found = ReportFindOne(c, u)]
         ELSE [r EXCEPT !.pc = "write"]]
  /\ UNCHANGED <<storeVars, resp>>

\* createReport: Report.create with details kept only for reason 'other';
\* a validation or duplicate key error lands in the catch, which answers 500.
createReportWrite(s) ==
  LET r == reqs[s]
      det == IF r.reason = "other" THEN r.details ELSE "" IN
  /\ r.op = "createReport" /\ r.pc = "write"
  /\ IF ~ReportValid(r.reason, det) \/ ReportDuplicateKey(r.target, r.user)
       THEN /\ reports' = reports
            /\ reqs' = [reqs EXCEPT ![s] = Fail(r, 500, "error.message")]
       ELSE /\ reports' = reports \cup
                 {[id |-> NewReportId, comment |-> r.target, user |-> r.user,
                   reason |-> r.reason, details |-> det, status |-> "pending"]}
            /\ reqs' = [reqs EXCEPT ![s] = Respond(r, 201, "na")]
  /\ UNCHANGED <<users, videos, playlists, notices, comments, likes, views,
                 notifications, resp>>

\* cancelReport: Report.findOne for (commentId, user); 404 when there is none.
cancelReport(s, u, c) ==
  /\ Free(s)
  /\ LET r == NewReq("cancelReport", u, c) IN
       reqs' = [reqs EXCEPT ![s] =
         IF Protect(u) # 0 THEN Respond(r, Protect(u), "na")
         ELSE IF ReportFindOne(c, u) = 0 THEN Respond(r, 404, "na")
         ELSE [r EXCEPT !.pc = "write", !.found = ReportFindOne(c, u)]]
  /\ UNCHANGED <<storeVars, resp>>

\* cancelReport: Report.findByIdAndDelete(report._id), then 200.
cancelReportWrite(s) ==
  LET r == reqs[s] IN
  /\ r.op = "cancelReport" /\ r.pc = "write"
  /\ reports' = {row \in reports : row.id # r.found}
  /\ reqs' = [reqs EXCEPT ![s] = Respond(r, 200, "na")]
  /\ UNCHANGED <<users, videos, playlists, notices, comments, likes, views,
                 notifications, resp>>

\* The status values a request body carries.
StatusInputs == {"pending", "reviewed", "ignored", "closed"}

StatusAccepted_Any(status) == TRUE

\* ['pending', 'reviewed', 'ignored'].includes(status)
StatusAccepted(status) == status \in {"pending", "reviewed", "ignored"}

UpdateStatusRoles_Any == {"student", "teacher", "admin"}

\* router.put('/:id', protect, authorize('admin'), updateReportStatus)
UpdateStatusRoles == {"admin"}

\* updateReportStatus behind its route: protect, authorize('admin'), the
\* check of the status value, then Report.findByIdAndUpdate(id, {status}).
updateReportStatus(u, id, status) ==
  LET code ==
        IF Protect(u) # 0 THEN Protect(u)
        ELSE IF Authorize(u, UpdateStatusRoles) # 0 THEN 403
        ELSE IF ~StatusAccepted(status) THEN 400
        ELSE IF ~\E row \in reports : row.id = id THEN 404
        ELSE 200 IN
  /\ reports' = IF code = 200
                  THEN {IF row.id = id THEN [row EXCEPT !.status = status]
                        ELSE row : row \in reports}
                  ELSE reports
  /\ resp' = [op |-> "updateReportStatus", user |-> u, target |-> id,
              status |-> code]
  /\ UNCHANGED <<users, videos, playlists, notices, comments, likes, views,
                 notifications, reqs>>

-----------------------------------------------------------------------------
(* Video access *)

\* A handler whose claims concern one caller at a time is one step, from the
\* request to the answer, and its answer is kept in resp.
Answer(op, u, target, code) ==
  [op |-> op, user |-> u, target |-> target, status |-> code]

GetVideoHasAccess_CohortOnly(u, v) ==
  /\ videos[v].branch = users[u].branch
  /\ videos[v].year = users[u].year

\* getVideo, the student branch: hasAccess = (branchMatch && yearMatch) ||
\* hasSpecialAccess, the matches being string equalities.
GetVideoHasAccess(u, v) ==
  \/ /\ videos[v].branch = users[u].branch
     /\ videos[v].year = users[u].year
  \/ u \in videos[v].specialAccess

\* GET /:id of the router that protects every route: protect, then getVideo
\* with req.user set.
getVideo(u, v) ==
  LET code ==
        IF Protect(u) # 0 THEN Protect(u)
        ELSE IF v \notin DOMAIN videos THEN 404
        ELSE IF users[u].role = "student" /\ ~GetVideoHasAccess(u, v)
          THEN 403
        ELSE 200 IN
  /\ resp' = Answer("getVideo", u, v, code)
  /\ UNCHANGED <<storeVars, reqs>>

\* GET /:id of the router that leaves the route public: no middleware sets
\* req.user, and getVideo skips the access check.
getVideoPublic(v) ==
  /\ resp' = Answer("getVideo", "none", v,
                    IF v \notin DOMAIN videos THEN 404 ELSE 200)
  /\ UNCHANGED <<storeVars, reqs>>

\* The studentIds a request body carries: an array of student ids, or
\* anything else (array FALSE).
StudentIdsInputs ==
  {[array |-> FALSE, ids |-> <<>>]} \cup
    {[array |-> TRUE, ids |-> q] :
       q \in {<<>>, <<"s1">>, <<"s2">>, <<"s1", "s2">>}}

SeqRange(q) == {q[i] : i \in 1 .. Len(q)}

\* The notification updateSpecialAccess builds for a student.
AccessNotification(student) ==
  [recipient |-> student, type |-> "video", title |-> "", message |-> ""]

AccessRoles == {"admin"}

\* PUT /:id/access: protect, authorize('admin'), then updateSpecialAccess:
\* the list is saved first, then one Notification.create per student under
\* Promise.all, and a rejection there lands in the catch, which answers 500.
updateSpecialAccess(u, v, studentIds) ==
  LET denied == IF Protect(u) # 0 THEN Protect(u)
                ELSE Authorize(u, AccessRoles)
      saves == denied = 0 /\ studentIds.array /\ v \in DOMAIN videos
      docs == {AccessNotification(st) : st \in SeqRange(studentIds.ids)}
      code == IF denied # 0 THEN denied
              ELSE IF ~studentIds.array THEN 400
              ELSE IF v \notin DOMAIN videos THEN 404
              ELSE IF \E d \in docs : ~NotificationValid(d) THEN 500
              ELSE 200 IN
  /\ videos' = IF saves
                 THEN [videos EXCEPT
                         ![v].specialAccess = SeqRange(studentIds.ids)]
                 ELSE videos
  /\ resp' = Answer("updateSpecialAccess", u, v, code)
  /\ UNCHANGED <<users, playlists, notices, comments, likes, views, reports,
                 notifications, reqs>>

-----------------------------------------------------------------------------
(* Owner-or-admin mutations of videos, playlists and notices *)

\* authorize('teacher', 'admin') on the mutating content routes
ContentRoles == {"teacher", "admin"}

\* protect, then authorize('teacher', 'admin'): the status that ends the
\* request before the handler runs, 0 when the handler runs.
ContentGate(u) ==
  IF Protect(u) # 0 THEN Protect(u) ELSE Authorize(u, ContentRoles)

\* The outcome of the calls to the cloud storage in a request: none made,
\* all resolved, or one rejected.
CloudOutcomes == {"none", "ok", "fail"}

\* The outcomes when the handler always calls the cloud storage.
CloudCalls == {"ok", "fail"}

\* Remove the document with this id from a collection.
Without(coll, id) == [x \in DOMAIN coll \ {id} |-> coll[x]]

VideoCanMutate_Any(u, v) == TRUE

\* updateVideo / deleteVideo: video.teacher.toString() ===
\* req.user._id.toString() || req.user.role === 'admin'
VideoCanMutate(u, v) ==
  videos[v].teacher = u \/ users[u].role = "admin"

\* The bodies of updateVideo requests: the year "5th" is not in the enum.
VideoBodies ==
  {[branch |-> b, year |-> y, specialAccess |-> {}] :
     b \in {"ECE"}, y \in {"3rd", "5th"}}

\* updateVideo: 404, the ownership check, the thumbnail upload when a file
\* came with the request, then Video.findByIdAndUpdate with runValidators;
\* every error lands in the catch, which answers 400.
updateVideo(u, v, body, cloud) ==
  LET code ==
        IF ContentGate(u) # 0 THEN ContentGate(u)
        ELSE IF v \notin DOMAIN videos THEN 404
        ELSE IF ~VideoCanMutate(u, v) THEN 403
        ELSE IF cloud = "fail" THEN 400
        ELSE IF body.year \notin YearEnum THEN 400
        ELSE 200 IN
  /\ videos' =
       IF code = 200
         THEN [videos EXCEPT
                 ![v].branch = body.branch,
                 ![v].year = body.year,
                 ![v].specialAccess = body.specialAccess,
                 ![v].thumbnailUrl =
                    IF cloud = "ok" THEN "uploaded" ELSE @]
         ELSE videos
  /\ resp' = Answer("updateVideo", u, v, code)
  /\ UNCHANGED <<users, playlists, notices, comments, likes, views, reports,
                 notifications, reqs>>

\* deleteVideo: 404, the ownership check, cloudinary destroy of the video
\* (and of the thumbnail), then video.remove(); the catch answers 500.
deleteVideo(u, v, cloud) ==
  LET code ==
        IF ContentGate(u) # 0 THEN ContentGate(u)
        ELSE IF v \notin DOMAIN videos THEN 404
        ELSE IF ~VideoCanMutate(u, v) THEN 403
        ELSE IF cloud = "fail" THEN 500
        ELSE 200 IN
  /\ videos' = IF code = 200 THEN Without(videos, v) ELSE videos
  /\ resp' = Answer("deleteVideo", u, v, code)
  /\ UNCHANGED <<users, playlists, notices, comments, likes, views, reports,
                 notifications, reqs>>

PlaylistCanMutate_Any(u, p) == TRUE

\* The playlist handlers: playlist.teacher.toString() ===
\* req.user._id.toString() || req.user.role === 'admin'
PlaylistCanMutate(u, p) ==
  playlists[p].teacher = u \/ users[u].role = "admin"

\* enum of Playlist.branch
PlaylistBranchEnum == {"CSE", "ECE", "EEE", "ME", "CE"}

\* The bodies of updatePlaylist requests: the branch "All" is not in the enum.
PlaylistBodies == {[branch |-> b, year |-> 3] : b \in {"ECE", "All"}}

\* updatePlaylist: 404, the ownership check, Playlist.findByIdAndUpdate
\* with runValidators; the catch answers 500.  The route has no upload
\* middleware, so req.file is never set.
updatePlaylist(u, p, body) ==
  LET code ==
        IF ContentGate(u) # 0 THEN ContentGate(u)
        ELSE IF p \notin DOMAIN playlists THEN 404
        ELSE IF ~PlaylistCanMutate(u, p) THEN 403
        ELSE IF body.branch \notin PlaylistBranchEnum THEN 500
        ELSE 200 IN
  /\ playlists' =
       IF code = 200
         THEN [playlists EXCEPT ![p].branch = body.branch,
                                ![p].year = body.year]
         ELSE playlists
  /\ resp' = Answer("updatePlaylist", u, p, code)
  /\ UNCHANGED <<users, videos, notices, comments, likes, views, reports,
                 notifications, reqs>>

\* deletePlaylist: 404, the ownership check, playlist.remove().  Playlist
\* has no coverImage path, so nothing is destroyed in the cloud storage.
deletePlaylist(u, p) ==
  LET code ==
        IF ContentGate(u) # 0 THEN ContentGate(u)
        ELSE IF p \notin DOMAIN playlists THEN 404
        ELSE IF ~PlaylistCanMutate(u, p) THEN 403
        ELSE 200 IN
  /\ playlists' = IF code = 200 THEN Without(playlists, p) ELSE playlists
  /\ resp' = Answer("deletePlaylist", u, p, code)
  /\ UNCHANGED <<users, videos, notices, comments, likes, views, reports,
                 notifications, reqs>>

\* playlist.videos.some(v => v.video.toString() === videoId)
InPlaylist(p, v) ==
  \E i \in 1 .. Len(playlists[p].videos) : playlists[p].videos[i].video = v

\* videoIds.map((videoId, index) => ({video: videoId, order: index}))
Ordered(videoIds) ==
  [i \in 1 .. Len(videoIds) |-> [video |-> videoIds[i], order |-> i - 1]]

\* addVideoToPlaylist: 404, the ownership check, 404 for the video, 400 when
\* the video is already in the playlist, then push {video, order: length}.
addVideoToPlaylist(u, p, v) ==
  LET code ==
        IF ContentGate(u) # 0 THEN ContentGate(u)
        ELSE IF p \notin DOMAIN playlists THEN 404
        ELSE IF ~PlaylistCanMutate(u, p) THEN 403
        ELSE IF v \notin DOMAIN videos THEN 404
        ELSE IF InPlaylist(p, v) THEN 400
        ELSE 200 IN
  /\ playlists' =
       IF code = 200
         THEN [playlists EXCEPT ![p].videos =
                 Append(@, [video |-> v, order |-> Len(@)])]
         ELSE playlists
  /\ resp' = Answer("addVideoToPlaylist", u, p, code)
  /\ UNCHANGED <<users, videos, notices, comments, likes, views, reports,
                 notifications, reqs>>

\* removeVideoFromPlaylist: 404, the ownership check, filter the entries of
\* the video out and renumber the rest.
removeVideoFromPlaylist(u, p, v) ==
  LET code ==
        IF ContentGate(u) # 0 THEN ContentGate(u)
        ELSE IF p \notin DOMAIN playlists THEN 404
        ELSE IF ~PlaylistCanMutate(u, p) THEN 403
        ELSE 200
      keep(e) == e.video # v IN
  /\ playlists' =
       IF code = 200
         THEN [playlists EXCEPT ![p].videos =
                 LET rest == SelectSeq(@, keep) IN
                 [i \in 1 .. Len(rest) |-> [rest[i] EXCEPT !.order = i - 1]]]
         ELSE playlists
  /\ resp' = Answer("removeVideoFromPlaylist", u, p, code)
  /\ UNCHANGED <<users, videos, notices, comments, likes, views, reports,
                 notifications, reqs>>

\* The videoIds a request body carries: an array of ids, or anything else.
VideoIdsInputs ==
  {[array |-> FALSE, ids |-> <<>>]} \cup
    {[array |-> TRUE, ids |-> q] : q \in {<<>>, <<"v1">>}}

\* reorderVideos: 400 unless videoIds is an array, 404, the ownership check,
\* then the playlist's videos become videoIds in the given order.
reorderVideos(u, p, videoIds) ==
  LET code ==
        IF ContentGate(u) # 0 THEN ContentGate(u)
        ELSE IF ~videoIds.array THEN 400
        ELSE IF p \notin DOMAIN playlists THEN 404
        ELSE IF ~PlaylistCanMutate(u, p) THEN 403
        ELSE 200 IN
  /\ playlists' =
       IF code = 200
         THEN [playlists EXCEPT ![p].videos = Ordered(videoIds.ids)]
         ELSE playlists
  /\ resp' = Answer("reorderVideos", u, p, code)
  /\ UNCHANGED <<users, videos, notices, comments, likes, views, reports,
                 notifications, reqs>>

NoticeCanMutate_Any(u, n) == TRUE

\* updateNotice / deleteNotice: notice.teacher.toString() === req.user.id
\* || req.user.role === 'admin'
NoticeCanMutate(u, n) ==
  notices[n].teacher = u \/ users[u].role = "admin"

\* The error middleware of the application answers every error handed to
\* next() with status 500, whatever status the error carries.
ErrorMiddleware(statusCode) == 500

\* enum of Notice.branch
NoticeBranchEnum == {"CSE", "CSE-AI", "CSE-SF", "ECE", "EE", "ME", "CE"}

\* The bodies of updateNotice requests, each setting one path: the branch
\* "All" is not in the enum, and teacher is a path like any other.
NoticeBodies ==
  {[path |-> "branch", value |-> "ECE"], [path |-> "branch", value |-> "All"],
   [path |-> "teacher", value |-> "t2"]}

\* Notice.findByIdAndUpdate(id, req.body) applied to a stored notice.
NoticeUpdated(doc, body, cloud) ==
  LET set == IF body.path = "branch"
               THEN [doc EXCEPT !.branch = body.value]
               ELSE [doc EXCEPT !.teacher = body.value] IN
  IF cloud = "ok" THEN [set EXCEPT !.attachments = TRUE] ELSE set

\* updateNotice: next(ErrorResponse 404), the ownership check with
\* next(ErrorResponse 401), the upload of the request's files, then
\* Notice.findByIdAndUpdate(id, req.body) with runValidators.
updateNotice(u, n, body, cloud) ==
  LET code ==
        IF ContentGate(u) # 0 THEN ContentGate(u)
        ELSE IF n \notin DOMAIN notices THEN ErrorMiddleware(404)
        ELSE IF ~NoticeCanMutate(u, n) THEN ErrorMiddleware(401)
        ELSE IF cloud = "fail" THEN ErrorMiddleware(500)
        ELSE IF body.path = "branch" /\ body.value \notin NoticeBranchEnum
          THEN ErrorMiddleware(500)
        ELSE 200 IN
  /\ notices' =
       IF code = 200
         THEN [notices EXCEPT ![n] = NoticeUpdated(@, body, cloud)]
         ELSE notices
  /\ resp' = Answer("updateNotice", u, n, code)
  /\ UNCHANGED <<users, videos, playlists, comments, likes, views, reports,
                 notifications, reqs>>

\* deleteNotice: next(ErrorResponse 404), the ownership check with
\* next(ErrorResponse 401), cloudinary destroy of the attachments when there
\* are any, then notice.remove().
deleteNotice(u, n, cloud) ==
  LET code ==
        IF ContentGate(u) # 0 THEN ContentGate(u)
        ELSE IF n \notin DOMAIN notices THEN ErrorMiddleware(404)
        ELSE IF ~NoticeCanMutate(u, n) THEN ErrorMiddleware(401)
        ELSE IF notices[n].attachments /\ cloud = "fail"
          THEN ErrorMiddleware(500)
        ELSE 200 IN
  /\ notices' = IF code = 200 THEN Without(notices, n) ELSE notices
  /\ resp' = Answer("deleteNotice", u, n, code)
  /\ UNCHANGED <<users, videos, playlists, comments, likes, views, reports,
                 notifications, reqs>>

-----------------------------------------------------------------------------
(* Initial stores *)

InitUsers ==
  [u \in UserIds |->
    CASE u = "s1" -> [role |-> "student", branch |-> "CSE", year |-> "2nd",
                      isApproved |-> TRUE]
      [] u = "s2" -> [role |-> "student", branch |-> "ECE", year |-> "2nd",
                      isApproved |-> TRUE]
      [] u = "a1" -> [role |-> "admin", branch |-> "", year |-> "",
                      isApproved |-> TRUE]
      [] OTHER    -> [role |-> "teacher", branch |-> "", year |-> "",
                      isApproved |-> TRUE]]

\* Video v1 of teacher t1 for the given branch and year, with the given
\* allow-list.
InitVideos(branch, year, access) ==
  [v \in VideoIds |->
    [teacher |-> "t1", branch |-> branch, year |-> year,
     specialAccess |-> access, views |-> 0, thumbnailUrl |-> "none"]]

InitPlaylists ==
  [p \in PlaylistIds |->
    [teacher |-> "t1", branch |-> "CSE", year |-> 2, videos |-> <<>>]]

InitNotices ==
  [n \in NoticeIds |->
    [teacher |-> "t1", branch |-> "CSE", year |-> "2nd",
     attachments |-> FALSE]]

\* Comment c1 on v1, written by student s1, top-level.
InitComments ==
  [c \in CommentIds |->
    [user |-> "s1", video |-> "v1", parentComment |-> "none"]]

NoComments ==
  [c \in {} |-> [user |-> "none", video |-> "none", parentComment |-> "none"]]

NoTrail == [user |-> "none", video |-> "none", results |-> <<>>]

\* The stores with the given users, videos and comments, nothing in the
\* ledgers and no token issued.
InitAll(usrs, vids, cmts) ==
  /\ users = usrs
  /\ videos = vids
  /\ playlists = InitPlaylists
  /\ notices = InitNotices
  /\ comments = cmts
  /\ likes = {}
  /\ views = {}
  /\ reports = {}
  /\ notifications = {}
  /\ reqs = [s \in Slots |-> Idle]
  /\ resp = NoResp
  /\ trail = NoTrail
  /\ viewers = {}
  /\ disturbed = {}
  /\ refused = {}
  /\ before = [s \in Slots |-> NoComments]
  /\ inbox = [s \in Slots |-> {}]
  /\ tokens = {}
  /\ notes = {}
  /\ admins = {u \in DOMAIN usrs : usrs[u].role = "admin"}

InitStores(vids, cmts) == InitAll(InitUsers, vids, cmts)

InitWith(vids) == InitStores(vids, InitComments)

\* The stores with v1 for CSE 2nd year and an empty allow-list.
Init == InitWith(InitVideos("CSE", "2nd", {}))

\* The stores with student s2 (ECE) on the allow-list of v1.
InitLedger == InitWith(InitVideos("CSE", "2nd", {"s2"}))

\* Video.branch is a free string and Video.year one of the enum: the
\* stores with v1 for one of these cohorts and an empty allow-list.
AccessBranches == {"CSE", "All"}
AccessYears == {"2nd", "3rd"}

InitAccess ==
  \E b \in AccessBranches, y \in AccessYears :
    InitWith(InitVideos(b, y, {}))

-----------------------------------------------------------------------------
(* Observers: what a client sees of the answers, kept beside the program *)

\* A request of slot s that was in flight answers in this step.
Finishes(s) == InFlight(s) /\ reqs'[s].pc = "done"

\* Slot s takes a new request in this step and the request is admitted.
Admits(s) == Free(s) /\ reqs'[s].pc \notin {"idle", "done"}

TrailResult(r) == IF r.status = 200 THEN r.liked ELSE "error"

\* The results of the successive like toggles of one (user, video) pair,
\* from a call that began with no Like row of the pair, up to three calls.
TrailNext ==
  IF \E s \in Slots : Finishes(s) /\ reqs[s].op \in LikeOps
    THEN LET s == CHOOSE x \in Slots : Finishes(x) /\ reqs[x].op \in LikeOps
             r == reqs'[s] IN
         IF /\ trail.user = r.user /\ trail.video = r.target
            /\ Len(trail.results) \in {1, 2}
           THEN [trail EXCEPT !.results = Append(@, TrailResult(r))]
         ELSE IF r.found = 0
           THEN [user |-> r.user, video |-> r.target,
                 results |-> <<TrailResult(r)>>]
         ELSE NoTrail
    ELSE trail

\* The (user, video) pairs of the recordView calls received so far.
ViewersNext ==
  viewers \cup
    {<<reqs'[s].user, reqs'[s].target>> :
       s \in {x \in Slots : reqs'[x].op = "recordView"
                              /\ reqs'[x].status \notin {401, 403}}}

\* The slots whose like request saw a Like row of its pair deleted since
\* the request was received.
DisturbedNext ==
  LET gone == likes \ likes' IN
  {s \in disturbed : ~Admits(s)} \cup
    {s \in Slots : \E row \in gone :
       /\ reqs'[s].op \in LikeOps
       /\ reqs'[s].user = row.user /\ reqs'[s].target = row.video}

\* The principals getVideo has answered 403 so far.
RefusedNext ==
  IF resp'.op = "getVideo" /\ resp'.status = 403
    THEN refused \cup {resp'.user}
    ELSE refused

-----------------------------------------------------------------------------
(* Specifications *)

\* A step of the program seen by the observer of like toggles.
ObsTrail(A) ==
  A /\ trail' = TrailNext
    /\ UNCHANGED <<viewers, disturbed, refused, before, inbox, tokens,
                  notes, admins>>

\* A step of the program seen by the observer of recordView callers.
ObsViewers(A) ==
  A /\ viewers' = ViewersNext
    /\ UNCHANGED <<trail, disturbed, refused, before, inbox, tokens,
                  notes, admins>>

\* A step of the program seen by the observer of deleted Like rows.
ObsDisturbed(A) ==
  A /\ disturbed' = DisturbedNext
    /\ UNCHANGED <<trail, viewers, refused, before, inbox, tokens,
                  notes, admins>>

\* A step of the program with no observer.
Plain(A) ==
  A /\ UNCHANGED <<trail, viewers, disturbed, refused, before, inbox, tokens,
                  notes, admins>>

\* A step of the program seen by the observer of refused getVideo calls.
ObsRefused(A) ==
  A /\ refused' = RefusedNext
    /\ UNCHANGED <<trail, viewers, disturbed, before, inbox, tokens,
                  notes, admins>>

LikeUsers == {"s1", "s2", "t1"}

\* One client at a time toggles likes: each call ends before the next begins.
NextLikeSeq ==
  \/ \E u \in LikeUsers, v \in VideoIds : ObsTrail(toggleLike(1, u, v))
  \/ \E u \in LikeUsers, v \in VideoIds : ObsTrail(likeVideo(1, u, v))
  \/ \E u \in LikeUsers, v \in VideoIds : ObsTrail(unlikeVideo(1, u, v))
  \/ ObsTrail(toggleLikeWrite(1))
  \/ ObsTrail(toggleLikeNotify(1))
  \/ ObsTrail(likeVideoWrite(1))
  \/ ObsTrail(likeVideoNotify(1))

SpecLikeSeq == InitLedger /\ [][NextLikeSeq]_vars

RaceUsers == {"s2", "t1"}

\* Like requests of all slots interleave at their awaits.
NextLikeRace ==
  \E s \in Slots :
    \/ \E u \in RaceUsers, v \in VideoIds : ObsDisturbed(toggleLike(s, u, v))
    \/ \E u \in RaceUsers, v \in VideoIds : ObsDisturbed(likeVideo(s, u, v))
    \/ ObsDisturbed(toggleLikeWrite(s))
    \/ ObsDisturbed(toggleLikeNotify(s))
    \/ ObsDisturbed(likeVideoWrite(s))
    \/ ObsDisturbed(likeVideoNotify(s))

SpecLikeRace == InitLedger /\ [][NextLikeRace]_vars

ViewUsers == {"s1", "s2", "t1"}

\* One client at a time records views.
NextViewSeq ==
  \/ \E u \in ViewUsers, v \in VideoIds, wt \in MetricInputs,
        cp \in MetricInputs :
        ObsViewers(recordView(1, u, v, wt, cp, wt))
  \/ ObsViewers(recordViewWrite(1))
  \/ ObsViewers(recordViewInc(1))

SpecViewSeq == InitLedger /\ [][NextViewSeq]_vars

\* recordView requests of all slots interleave at their awaits.
NextViewRace ==
  \E s \in Slots :
    \/ \E u \in ViewUsers, v \in VideoIds :
          ObsViewers(recordView(s, u, v, 5, 0, 0))
    \/ ObsViewers(recordViewWrite(s))
    \/ ObsViewers(recordViewInc(s))

SpecViewRace == InitLedger /\ [][NextViewRace]_vars

LedgerUsers == {"s2"}

\* Every ledger handler, by any of the principals, in any interleaving.
NextLedger ==
  \E s \in Slots :
    \/ \E u \in LedgerUsers, v \in VideoIds : Plain(toggleLike(s, u, v))
    \/ \E u \in LedgerUsers, v \in VideoIds : Plain(likeVideo(s, u, v))
    \/ \E u \in LedgerUsers, v \in VideoIds : Plain(unlikeVideo(s, u, v))
    \/ \E u \in LedgerUsers, v \in VideoIds :
          Plain(likeControllerLikeVideo(s, u, v))
    \/ \E u \in LedgerUsers, v \in VideoIds :
          Plain(likeControllerUnlikeVideo(s, u, v))
    \/ Plain(likeControllerLikeVideoCreate(s))
    \/ \E u \in LedgerUsers, v \in VideoIds :
          Plain(recordView(s, u, v, 5, 0, 0))
    \/ \E u \in LedgerUsers, c \in CommentIds :
          Plain(createReport(s, u, c, "spam", ""))
    \/ \E u \in LedgerUsers, c \in CommentIds : Plain(cancelReport(s, u, c))
    \/ Plain(toggleLikeWrite(s))
    \/ Plain(toggleLikeNotify(s))
    \/ Plain(likeVideoWrite(s))
    \/ Plain(likeVideoNotify(s))
    \/ Plain(recordViewWrite(s))
    \/ Plain(recordViewInc(s))
    \/ Plain(createReportWrite(s))
    \/ Plain(cancelReportWrite(s))

SpecLedger == InitLedger /\ [][NextLedger]_vars

Reporters == {"s2", "t1"}
ReportUsers == {"s2", "t1", "a1"}
ReportIds == 1 .. 3

\* One client at a time creates and cancels reports, and reports are given
\* a status.
NextReport ==
  \/ \E u \in Reporters, c \in CommentIds :
        Plain(createReport(1, u, c, "spam", ""))
  \/ \E u \in Reporters, c \in CommentIds : Plain(cancelReport(1, u, c))
  \/ Plain(createReportWrite(1))
  \/ Plain(cancelReportWrite(1))
  \/ \E u \in ReportUsers, id \in ReportIds, status \in StatusInputs :
        Plain(updateReportStatus(u, id, status))

SpecReport == Init /\ [][NextReport]_vars

AccessUsers == {"s1", "s2", "t1", "a1"}

\* Videos are requested and their allow-lists replaced.
NextAccess ==
  \/ \E u \in AccessUsers, v \in VideoIds : ObsRefused(getVideo(u, v))
  \/ \E v \in VideoIds : ObsRefused(getVideoPublic(v))
  \/ \E u \in AccessUsers, v \in VideoIds, ids \in StudentIdsInputs :
        ObsRefused(updateSpecialAccess(u, v, ids))

SpecAccess == InitAccess /\ [][NextAccess]_vars

ContentUsers == {"s1", "t1", "t2", "a1"}

\* Videos, playlists and notices are updated and deleted.
NextContent ==
  \/ \E u \in ContentUsers, v \in VideoIds, body \in VideoBodies,
        cloud \in CloudOutcomes :
        Plain(updateVideo(u, v, body, cloud))
  \/ \E u \in ContentUsers, v \in VideoIds, cloud \in CloudCalls :
        Plain(deleteVideo(u, v, cloud))
  \/ \E u \in ContentUsers, p \in PlaylistIds, body \in PlaylistBodies :
        Plain(updatePlaylist(u, p, body))
  \/ \E u \in ContentUsers, p \in PlaylistIds : Plain(deletePlaylist(u, p))
  \/ \E u \in ContentUsers, p \in PlaylistIds, v \in VideoIds :
        Plain(addVideoToPlaylist(u, p, v))
  \/ \E u \in ContentUsers, p \in PlaylistIds, v \in VideoIds :
        Plain(removeVideoFromPlaylist(u, p, v))
  \/ \E u \in ContentUsers, p \in PlaylistIds, ids \in VideoIdsInputs :
        Plain(reorderVideos(u, p, ids))
  \/ \E u \in ContentUsers, n \in NoticeIds, body \in NoticeBodies,
        cloud \in CloudOutcomes :
        Plain(updateNotice(u, n, body, cloud))
  \/ \E u \in ContentUsers, n \in NoticeIds, cloud \in CloudCalls :
        Plain(deleteNotice(u, n, cloud))

SpecContent == Init /\ [][NextContent]_vars

-----------------------------------------------------------------------------
(* Claims about the engagement ledger *)

\* C1: in every reachable state, under any interleaving of toggleLike,
\* likeVideo, unlikeVideo, recordView, createReport and cancelReport, the
\* store holds at most one Like row and at most one VideoView row per
\* (principal, video) pair and at most one Report row per (principal,
\* comment) pair.
C1_AtMostOneRowPerPair ==
  /\ \A u \in UserIds, v \in VideoIds :
        /\ Cardinality(LikeRows(v, u)) <= 1
        /\ Cardinality(ViewRows(v, u)) <= 1
  /\ \A u \in UserIds, c \in CommentIds :
        Cardinality(ReportRows(c, u)) <= 1

\* C1 witness: a row of each kind is stored for s2 and a create that raced
\* with another of the same pair was rejected.
C1_Witness ==
  /\ LikeRows("v1", "s2") # {}
  /\ ViewRows("v1", "s2") # {}
  /\ \E s \in Slots :
        /\ reqs[s].op = "createReport" /\ reqs[s].pc = "done"
        /\ reqs[s].status = 500 /\ reqs[s].found = 0
        /\ ReportRows(reqs[s].target, reqs[s].user) # {}

\* C2: from no Like row of (p, v), three successive like toggles by the
\* permitted principal p on the stored video v answer liked true, false,
\* true, and a Like row of (p, v) is stored exactly after the calls that
\* answered true.
C2_ToggleTrueFalseTrue ==
  /\ \A i \in 1 .. Len(trail.results) :
        trail.results[i] = <<"true", "false", "true">>[i]
  /\ ( /\ trail.results # <<>>
       /\ reqs[1].pc = "done" /\ reqs[1].op \in LikeOps
       /\ reqs[1].user = trail.user /\ reqs[1].target = trail.video )
     => ( LikeRows(trail.video, trail.user) # {}
            <=> trail.results[Len(trail.results)] = "true" )

\* C3: two like toggles of one principal on one video that both found no
\* Like row before either wrote leave, once both have answered, exactly one
\* Like row of the pair.
C3_RaceLeavesOneRow ==
  \A s \in Slots, t \in Slots :
    ( /\ s # t
      /\ reqs[s].op \in LikeOps /\ reqs[t].op \in LikeOps
      /\ reqs[s].pc = "done" /\ reqs[t].pc = "done"
      /\ reqs[s].status \notin {401, 403, 404}
      /\ reqs[t].status \notin {401, 403, 404}
      /\ reqs[s].user = reqs[t].user /\ reqs[s].target = reqs[t].target
      /\ reqs[s].found = 0 /\ reqs[t].found = 0
      /\ s \notin disturbed /\ t \notin disturbed )
    => Cardinality(LikeRows(reqs[s].target, reqs[s].user)) = 1

\* C3 witness: both racing calls have answered, one of them with the error
\* of the rejected create.
C3_Witness ==
  \E s \in Slots, t \in Slots :
    /\ s # t
    /\ reqs[s].op = "toggleLike" /\ reqs[t].op = "toggleLike"
    /\ reqs[s].pc = "done" /\ reqs[t].pc = "done"
    /\ reqs[s].user = reqs[t].user /\ reqs[s].target = reqs[t].target
    /\ reqs[s].found = 0 /\ reqs[t].found = 0
    /\ reqs[s].status = 200 /\ reqs[t].status = 400
    /\ s \notin disturbed /\ t \notin disturbed
    /\ Cardinality(LikeRows(reqs[s].target, reqs[s].user)) = 1

\* The distinct principals that have called recordView on video v.
Callers(v) == {u \in UserIds : <<u, v>> \in viewers}

\* C4: with recordView calls made one after another, after every call the
\* view counter of the video equals the number of distinct principals that
\* have called (so a principal's second call leaves it unchanged), and each
\* of them has exactly one view row.
C4_CounterCountsCallers ==
  Free(1) =>
    \A v \in VideoIds :
      /\ videos[v].views = Cardinality(Callers(v))
      /\ \A u \in Callers(v) : Cardinality(ViewRows(v, u)) = 1

\* C4 witness: three principals have called, the last call was a second
\* call of its principal, and the counter is 3.
C4_Witness ==
  /\ Callers("v1") = ViewUsers
  /\ reqs[1].op = "recordView" /\ reqs[1].pc = "done"
  /\ reqs[1].status = 200 /\ reqs[1].found # 0
  /\ videos["v1"].views = 3

\* C5: for any interleaving of the steps of recordView calls on a stored
\* video, once all calls have answered the view counter has grown by the
\* number of distinct calling principals.
C5_SettledCounter ==
  (\A s \in Slots : ~InFlight(s)) =>
    \A v \in VideoIds : videos[v].views = Cardinality(Callers(v))

\* C5 witness: two first-time calls of one principal overlapped, one create
\* was rejected, another principal has called too, and all have answered.
C5_Witness ==
  /\ \A s \in Slots : ~InFlight(s)
  /\ Cardinality(Callers("v1")) = 2
  /\ videos["v1"].views = 2
  /\ \E s \in Slots, t \in Slots :
        /\ s # t
        /\ reqs[s].op = "recordView" /\ reqs[t].op = "recordView"
        /\ reqs[s].user = reqs[t].user
        /\ reqs[s].found = 0 /\ reqs[t].found = 0
        /\ reqs[s].status = 200 /\ reqs[t].status = 500

-----------------------------------------------------------------------------
(* Claims about video access and content mutation *)

\* The rule of visibility as the claim words it: approved and in the cohort
\* (branch equal or "All", year equal or "All"), or on the allow-list.
VisibleByRule(u, v) ==
  \/ /\ VideoIsApproved(v)
     /\ videos[v].branch \in {users[u].branch, "All"}
     /\ videos[v].year \in {users[u].year, "All"}
  \/ u \in videos[v].specialAccess

\* C6: for every student s and stored video v, getVideo answers 200 to s
\* if and only if v is approved and of s's cohort (branch equal or "All",
\* year equal or "All") or s is on v's allow-list, and 403 otherwise.
C6_GrantedIffVisibleByRule ==
  ( /\ resp.op = "getVideo"
    /\ resp.user \in StudentIds
    /\ resp.target \in DOMAIN videos )
  => IF VisibleByRule(resp.user, resp.target)
       THEN resp.status = 200
       ELSE resp.status = 403

ContentOps ==
  {"updateVideo", "deleteVideo", "updatePlaylist", "deletePlaylist",
   "addVideoToPlaylist", "removeVideoFromPlaylist", "reorderVideos",
   "updateNotice", "deleteNotice"}

\* The collection a content request targets, as it is before the request.
Targeted(op) ==
  IF op \in {"updateVideo", "deleteVideo"} THEN videos
  ELSE IF op \in {"updateNotice", "deleteNotice"} THEN notices
  ELSE playlists

\* The caller is the owning teacher of the targeted item or an admin.
OwnerOrAdmin(op, u, id) ==
  Targeted(op)[id].teacher = u \/ users[u].role = "admin"

\* C8: a request of updateVideo, deleteVideo, updatePlaylist,
\* deletePlaylist, addVideoToPlaylist, removeVideoFromPlaylist,
\* reorderVideos, updateNotice or deleteNotice changes the stored videos,
\* playlists or notices only when the caller is the owning teacher of the
\* targeted item or an admin, and then it answers 200 and changes nothing
\* but the targeted item; a caller who is neither is answered an error
\* and nothing is changed, and the owner and the admin are never answered
\* 403.
C8_OnlyOwnerOrAdminMutates ==
  [][resp'.op \in ContentOps =>
       LET op == resp'.op
           u == resp'.user
           id == resp'.target
           stored == id \in DOMAIN Targeted(op)
           changed == <<videos, playlists, notices>>'
                        # <<videos, playlists, notices>> IN
       /\ changed => /\ stored /\ OwnerOrAdmin(op, u, id)
                     /\ resp'.status = 200
       /\ (stored /\ ~OwnerOrAdmin(op, u, id))
            => (resp'.status >= 400 /\ ~changed)
       /\ (stored /\ OwnerOrAdmin(op, u, id)) => resp'.status # 403]_vars

\* C8 witness: an update of the owner or the admin has changed video v1,
\* the admin has deleted the notice of t1, and teacher t2, who owns
\* nothing, has just been refused the deletion of v1.
C8_Witness ==
  /\ resp.op = "deleteVideo" /\ resp.user = "t2" /\ resp.status = 403
  /\ "v1" \in DOMAIN videos /\ videos["v1"].branch = "ECE"
  /\ "n1" \notin DOMAIN notices

-----------------------------------------------------------------------------
(* Claims about the report status *)

\* The status of the row with this id changes in the step.
StatusChanges(id) ==
  \E row \in reports, next \in reports' :
    row.id = id /\ next.id = id /\ row.status # next.status

\* C9 as claimed: the status of a stored Report only ever changes from
\* pending to reviewed or from pending to ignored.
C9_OnlyOutOfPending ==
  [][\A row \in reports, next \in reports' :
       (row.id = next.id /\ row.status # next.status)
         => (row.status = "pending" /\ next.status \in {"reviewed", "ignored"})]_vars

\* C9 as amended: the status of a stored Report is always one of pending,
\* reviewed and ignored, and it changes only in an updateReportStatus call
\* of an admin that answers 200, which may set any of the three values
\* whatever the current status.
C9_StatusChangesByAdminOnly ==
  [][/\ \A next \in reports' : next.status \in StatusEnum
     /\ \A id \in ReportIds :
          StatusChanges(id) =>
            /\ resp'.op = "updateReportStatus" /\ resp'.target = id
            /\ resp'.status = 200
            /\ users[resp'.user].role = "admin"]_vars

\* C9 witness: an admin's updateReportStatus answered 200 and the report it
\* names is stored as reviewed.
C9_Witness ==
  /\ resp.op = "updateReportStatus" /\ resp.status = 200
  /\ \E row \in reports : row.id = resp.target /\ row.status = "reviewed"

\* C10: an updateReportStatus request of an authenticated principal whose
\* role is not admin is answered 403 and leaves every report unchanged.
C10_NonAdminForbidden ==
  [][( /\ resp'.op = "updateReportStatus"
       /\ reqs' = reqs
       /\ users[resp'.user].role # "admin" )
     => (resp'.status = 403 /\ reports' = reports)]_vars

\* C10 witness: a teacher's updateReportStatus on a stored report was
\* answered 403.
C10_Witness ==
  /\ resp.op = "updateReportStatus" /\ resp.status = 403
  /\ users[resp.user].role = "teacher"
  /\ \E row \in reports : row.id = resp.target /\ row.status = "pending"


(***************************************************************************)
(* Report flow: two comments, reports created, given a status, cancelled   *)
(***************************************************************************)

\* Comments c1 (written by student s1) and c2 (written by teacher t1), both
\* top-level on v1.
FlowComments == {"c1", "c2"}

InitFlowComments ==
  [c \in FlowComments |->
    [user |-> IF c = "c1" THEN "s1" ELSE "t1", video |-> "v1",
     parentComment |-> "none"]]

InitFlow == InitStores(InitVideos("CSE", "2nd", {}), InitFlowComments)

FlowStatus == {"reviewed"}

\* One client at a time creates and cancels reports with every body the
\* form can send, while the admin gives reports a status.
NextReportFlow ==
  \/ \E u \in Reporters, c \in FlowComments, reason \in ReasonInputs,
        details \in DetailsInputs :
        Plain(createReport(1, u, c, reason, details))
  \/ \E u \in Reporters, c \in FlowComments : Plain(cancelReport(1, u, c))
  \/ Plain(createReportWrite(1))
  \/ Plain(cancelReportWrite(1))
  \/ \E id \in ReportIds, status \in FlowStatus :
        Plain(updateReportStatus("a1", id, status))

SpecReportFlow == InitFlow /\ [][NextReportFlow]_vars

\* C11: cancelReport by principal p on comment c deletes p's report on c
\* whatever its status and leaves every other report unchanged; when p has
\* no report on c it answers 404 and changes nothing.
C11_CancelDeletesOwnReport ==
  [][\A s \in Slots :
       /\ (Free(s) /\ reqs'[s] # reqs[s] /\ reqs'[s].op = "cancelReport") =>
            LET u == reqs'[s].user
                c == reqs'[s].target IN
            /\ reports' = reports
            /\ (Protect(u) = 0 /\ ReportRows(c, u) = {}) =>
                 (reqs'[s].pc = "done" /\ reqs'[s].status = 404)
            /\ (Protect(u) = 0 /\ ReportRows(c, u) # {}) =>
                 reqs'[s].pc = "write"
       /\ (reqs[s].op = "cancelReport" /\ reqs[s].pc = "write"
            /\ reqs'[s].pc = "done") =>
            /\ reqs'[s].status = 200
            /\ ReportRows(reqs[s].target, reqs[s].user) # {}
            /\ reports' = reports \ ReportRows(reqs[s].target, reqs[s].user)
     ]_vars

\* A cancel has answered 200 while the canceller's report on the other
\* comment and another principal's reviewed report on the same comment are
\* still stored.
C11_Witness ==
  /\ reqs[1].op = "cancelReport" /\ reqs[1].pc = "done"
  /\ reqs[1].status = 200
  /\ ReportRows(reqs[1].target, reqs[1].user) = {}
  /\ \E row \in reports :
       row.user = reqs[1].user /\ row.comment # reqs[1].target
  /\ \E row \in reports :
       /\ row.user # reqs[1].user /\ row.comment = reqs[1].target
       /\ row.status = "reviewed"

C13_DuplicateReportRejected ==
  [][\A s \in Slots :
       /\ (/\ Free(s) /\ reqs'[s] # reqs[s]
           /\ reqs'[s].op = "createReport"
           /\ Protect(reqs'[s].user) = 0
           /\ reqs'[s].target \in DOMAIN comments
           /\ comments[reqs'[s].target].user # reqs'[s].user
           /\ reqs'[s].reason # "") =>
            LET mine == ReportRows(reqs'[s].target, reqs'[s].user) IN
            /\ reports' = reports
            /\ mine # {} =>
                 /\ reqs'[s].pc = "done" /\ reqs'[s].status = 400
                 /\ reqs'[s].error = "You have already reported this comment"
            /\ mine = {} => reqs'[s].pc = "write"
       /\ (/\ reqs[s].op = "cancelReport" /\ reqs[s].pc = "write"
           /\ reqs'[s].pc = "done") =>
            ReportRows(reqs[s].target, reqs[s].user)' = {}
       /\ (/\ reqs[s].op = "createReport" /\ reqs[s].pc = "write"
           /\ reqs'[s].pc = "done"
           /\ ReportRows(reqs[s].target, reqs[s].user) = {}
           /\ ReportValid(reqs[s].reason,
                          IF reqs[s].reason = "other" THEN reqs[s].details
                          ELSE "")) =>
            /\ reqs'[s].status = 201
            /\ \E row \in reports' :
                 /\ reports' = reports \cup {row}
                 /\ row \notin reports
                 /\ row.comment = reqs[s].target /\ row.user = reqs[s].user
                 /\ row.reason = reqs[s].reason /\ row.status = "pending"
     ]_vars

\* Student s2 has reported c1 again, with another reason, while its reviewed
\* report on c1 is stored, and was answered the duplicate-report error.
C13_Witness ==
  /\ reqs[1].op = "createReport" /\ reqs[1].pc = "done"
  /\ reqs[1].user = "s2" /\ reqs[1].target = "c1"
  /\ reqs[1].error = "You have already reported this comment"
  /\ \E row \in reports :
       /\ row.comment = "c1" /\ row.user = "s2"
       /\ row.id = reqs[1].found
       /\ row.status = "reviewed" /\ row.reason # reqs[1].reason

-----------------------------------------------------------------------------
(* Comment collection: threads *)

\* The _id values Comment.create hands out after c1, in this order, and an
\* _id that was never handed out.
CommentPool == <<"c2", "c3", "c4">>
StaleComment == "c0"

CommentOps == {"createComment", "deleteComment"}

\* The comment ids some stored document or some request still holds.
CommentRefs ==
  DOMAIN comments
    \cup {comments[c].parentComment : c \in DOMAIN comments}
    \cup {r.comment : r \in reports}
    \cup {reqs[s].target : s \in {t \in Slots : reqs[t].op \in CommentOps}}
    \cup {reqs[s].parent : s \in {t \in Slots : reqs[t].op \in CommentOps}}
    \cup {reqs[s].made : s \in {t \in Slots : reqs[t].op \in CommentOps}}

\* The pool still has an _id for every create in flight and one more.
CommentIdLeft ==
  Cardinality({i \in DOMAIN CommentPool : CommentPool[i] \notin CommentRefs})
    > Cardinality({s \in Slots : reqs[s].op = "createComment"
                                  /\ reqs[s].pc = "write"})

\* A new ObjectId: the first of the pool that nothing refers to.
NewCommentId ==
  CommentPool[CHOOSE i \in DOMAIN CommentPool :
                /\ CommentPool[i] \notin CommentRefs
                /\ \A j \in 1 .. (i - 1) : CommentPool[j] \in CommentRefs]

\* The content a request body carries ("" for absent).
ContentInputs == {"", "text"}

\* createComment: protect, the check of videoId and content, Video.findById.
createComment(s, u, video, content, parent) ==
  /\ Free(s)
  /\ CommentIdLeft
  /\ LET r == [NewReq("createComment", u, video) EXCEPT !.parent = parent] IN
       reqs' = [reqs EXCEPT ![s] =
         IF Protect(u) # 0 THEN Respond(r, Protect(u), "na")
         ELSE IF video = "none" \/ content = ""
           THEN Fail(r, 400, "videoId and content are required")
         ELSE IF video \notin DOMAIN videos
           THEN Fail(r, 404, "Video not found")
         ELSE [r EXCEPT !.pc = "write"]]
  /\ UNCHANGED <<storeVars, resp>>

\* createComment: Comment.create({content, video, user, parentComment:
\* parentComment || null}), then 201.  The schema declares parentComment as
\* an ObjectId with default null and no validator, and the handler does not
\* look the parent up: every id is stored as given.
createCommentWrite(s) ==
  LET r == reqs[s] IN
  /\ r.op = "createComment" /\ r.pc = "write"
  /\ comments' =
       [c \in DOMAIN comments \cup {NewCommentId} |->
         IF c \in DOMAIN comments THEN comments[c]
         ELSE [user |-> r.user, video |-> r.target,
               parentComment |-> r.parent]]
  /\ reqs' = [reqs EXCEPT ![s] =
       [Respond(r, 201, "na") EXCEPT !.made = NewCommentId]]
  /\ UNCHANGED <<users, videos, playlists, notices, likes, views, reports,
                 notifications, resp>>

\* Who may delete a comment: its author or an admin.
CommentCanDelete(u, c) == comments[c].user = u \/ users[u].role = "admin"

\* deleteComment: protect, Comment.findById, the author-or-admin check; a
\* comment without a parent goes on to delete its replies first.
deleteComment(s, u, c) ==
  /\ Free(s)
  /\ LET r == NewReq("deleteComment", u, c) IN
       reqs' = [reqs EXCEPT ![s] =
         IF Protect(u) # 0 THEN Respond(r, Protect(u), "na")
         ELSE IF c \notin DOMAIN comments
           THEN Fail(r, 404, "Comment not found")
         ELSE IF ~CommentCanDelete(u, c) THEN Fail(r, 403, "Not authorized")
         ELSE IF comments[c].parentComment = "none"
           THEN [r EXCEPT !.pc = "deleteMany"]
         ELSE [r EXCEPT !.pc = "delete",
                        !.parent = comments[c].parentComment]]
  /\ UNCHANGED <<storeVars, resp>>

\* The documents Comment.deleteMany({parentComment: comment._id}) matches.
Replies(c) == {x \in DOMAIN comments : comments[x].parentComment = c}

\* deleteComment: Comment.deleteMany of the replies.
deleteCommentMany(s) ==
  LET r == reqs[s] IN
  /\ r.op = "deleteComment" /\ r.pc = "deleteMany"
  /\ comments' = [c \in DOMAIN comments \ Replies(r.target) |-> comments[c]]
  /\ reqs' = [reqs EXCEPT ![s] = [r EXCEPT !.pc = "delete"]]
  /\ UNCHANGED <<users, videos, playlists, notices, likes, views, reports,
                 notifications, resp>>

\* deleteComment: Comment.findByIdAndDelete(req.params.id), then 200.
deleteCommentDelete(s) ==
  LET r == reqs[s] IN
  /\ r.op = "deleteComment" /\ r.pc = "delete"
  /\ comments' = [c \in DOMAIN comments \ {r.target} |-> comments[c]]
  /\ reqs' = [reqs EXCEPT ![s] = Respond(r, 200, "na")]
  /\ UNCHANGED <<users, videos, playlists, notices, likes, views, reports,
                 notifications, resp>>

\* The comments as the deleteComment request of each slot found them when it
\* was received; nothing for a slot with another request.
BeforeNext ==
  [s \in Slots |->
    IF Free(s) /\ reqs'[s] # reqs[s]
      THEN IF reqs'[s].op = "deleteComment" THEN comments ELSE NoComments
      ELSE before[s]]

\* A step of the program seen by the observer of deleted threads.
ObsBefore(A) ==
  A /\ before' = BeforeNext
    /\ UNCHANGED <<trail, viewers, disturbed, refused, inbox, tokens,
                  notes, admins>>

\* Videos v1 and v2 of teacher t1.
ThreadVideos == {"v1", "v2"}

InitThreadVideos ==
  [v \in ThreadVideos |->
    [teacher |-> "t1", branch |-> "CSE", year |-> "2nd",
     specialAccess |-> {}, views |-> 0, thumbnailUrl |-> "none"]]

InitThread == InitStores(InitThreadVideos, InitComments)

ThreadWriters == {"s1"}
ThreadDeleters == {"s1", "s2", "a1"}

\* One client at a time writes comments and replies on the two videos and
\* deletes comments.
NextThread ==
  \/ \E u \in ThreadWriters, v \in ThreadVideos, content \in ContentInputs,
        parent \in {"none", StaleComment} \cup DOMAIN comments :
        ObsBefore(createComment(1, u, v, content, parent))
  \/ ObsBefore(createCommentWrite(1))
  \/ \E u \in ThreadDeleters, c \in {StaleComment} \cup DOMAIN comments :
        ObsBefore(deleteComment(1, u, c))
  \/ ObsBefore(deleteCommentMany(1))
  \/ ObsBefore(deleteCommentDelete(1))

SpecThread == InitThread /\ [][NextThread]_vars

-----------------------------------------------------------------------------
(* Claims about comment threads *)

\* The comments of store f that reach comment c along parentComment links.
Descendants(f, c) ==
  LET RECURSIVE Reaches(_, _)
      Reaches(n, x) ==
        /\ n > 0
        /\ x \in DOMAIN f
        /\ \/ f[x].parentComment = c
           \/ Reaches(n - 1, f[x].parentComment)
  IN {x \in DOMAIN f : Reaches(Cardinality(DOMAIN f), x)}

\* C14: once deleteComment has answered 200 for a top-level comment c, no
\* stored comment is c, has parentComment c or descended from c along
\* parentComment links, and every comment outside the thread of c is stored
\* as it was.
C14_ThreadDeleted ==
  \A s \in Slots :
    (/\ reqs[s].op = "deleteComment" /\ reqs[s].pc = "done"
     /\ reqs[s].status = 200
     /\ reqs[s].target \in DOMAIN before[s]
     /\ before[s][reqs[s].target].parentComment = "none") =>
      LET c == reqs[s].target
          tree == {c} \cup Descendants(before[s], c) IN
      /\ DOMAIN comments \cap tree = {}
      /\ \A x \in DOMAIN comments : comments[x].parentComment # c
      /\ \A x \in DOMAIN before[s] \ tree :
           x \in DOMAIN comments /\ comments[x] = before[s][x]

\* C15: a createComment whose parentComment id does not identify a stored
\* comment on the same video is answered an error and stores no comment.
C15_ParentMustBeStored ==
  [][\A s \in Slots :
       (/\ reqs[s].op = "createComment" /\ InFlight(s)
        /\ reqs'[s].pc = "done"
        /\ reqs[s].parent # "none"
        /\ ~(/\ reqs[s].parent \in DOMAIN comments
             /\ comments[reqs[s].parent].video = reqs[s].target)) =>
         /\ reqs'[s].status >= 400
         /\ comments' = comments
     ]_vars

-----------------------------------------------------------------------------
(* Notifications created after a mutation *)

\* One client at a time likes v1 while the admin sets its allow-list.
NextNotify ==
  \/ \E u \in LikeUsers, v \in VideoIds : Plain(toggleLike(1, u, v))
  \/ \E u \in LikeUsers, v \in VideoIds : Plain(likeVideo(1, u, v))
  \/ Plain(toggleLikeWrite(1))
  \/ Plain(toggleLikeNotify(1))
  \/ Plain(likeVideoWrite(1))
  \/ Plain(likeVideoNotify(1))
  \/ \E v \in VideoIds, studentIds \in StudentIdsInputs :
        Plain(updateSpecialAccess("a1", v, studentIds))

SpecNotify == InitLedger /\ [][NextNotify]_vars

\* C16: when the notification create of a handler fails after its mutation,
\* the handler still answers success and the mutation stays stored: a like
\* handler at its notification step answers 200 liked=true with the Like
\* row stored, and a call that changes the allow-list answers 200.
C16_NotificationFailureIgnored ==
  [][/\ \A s \in Slots :
          (/\ reqs[s].op \in LikeOps /\ reqs[s].pc = "notify"
           /\ reqs'[s].pc = "done"
           /\ notifications' = notifications) =>
            /\ reqs'[s].status = 200 /\ reqs'[s].liked = "true"
            /\ \E row \in likes' :
                 row.video = reqs[s].target /\ row.user = reqs[s].user
     /\ (videos' # videos /\ notifications' = notifications) =>
          (resp'.op = "updateSpecialAccess" /\ resp'.status = 200)
    ]_vars

-----------------------------------------------------------------------------
(* Claims about lost races on the unique indexes *)

\* The request of slot s is about to create a row that the unique index of
\* its collection rejects: a concurrent request has stored the row of the
\* same pair since this request looked for it.
LosesCreate(s) ==
  /\ reqs[s].pc = "write" /\ reqs[s].found = 0
  /\ \/ reqs[s].op \in LikeOps
        /\ LikeDuplicateKey(reqs[s].target, reqs[s].user)
     \/ reqs[s].op = "recordView"
        /\ ViewDuplicateKey(reqs[s].target, reqs[s].user)
     \/ reqs[s].op = "createReport"
        /\ ReportDuplicateKey(reqs[s].target, reqs[s].user)

\* C17: a handler whose create of a Like, VideoView or Report row is
\* rejected by the unique index answers a conflict error (400 or 409), not
\* 500, and the ledgers keep the winner's row as it is.
C17_LostRaceIsConflict ==
  [][\A s \in Slots :
       (LosesCreate(s) /\ reqs'[s].pc = "done") =>
         /\ reqs'[s].status \in {400, 409}
         /\ likes' = likes /\ views' = views /\ reports' = reports
     ]_vars

-----------------------------------------------------------------------------
(* Notices: creation and the notifications of the targeted students *)

\* enum of Notice.year
NoticeYearEnum == {"1st", "2nd", "3rd", "4th"}

\* The _id Notice.create hands out after n1.
NoticePool == <<"n2">>

NoticeIdLeft == \E i \in DOMAIN NoticePool : NoticePool[i] \notin DOMAIN notices

NewNoticeId ==
  NoticePool[CHOOSE i \in DOMAIN NoticePool :
               /\ NoticePool[i] \notin DOMAIN notices
               /\ \A j \in 1 .. (i - 1) : NoticePool[j] \in DOMAIN notices]

\* POST /api/notices: protect, authorize('teacher', 'admin'), then
\* createNotice: the required fields, and the refusal of 'All' as branch or
\* year.
createNotice(s, u, body) ==
  /\ Free(s)
  /\ NoticeIdLeft
  /\ LET r == [NewReq("createNotice", u, "none") EXCEPT !.body = body] IN
       reqs' = [reqs EXCEPT ![s] =
         IF ContentGate(u) # 0 THEN Respond(r, ContentGate(u), "na")
         ELSE IF ~body.complete
           THEN Fail(r, 400, "Please provide all required fields")
         ELSE IF body.branch = "All" \/ body.year = "All"
           THEN Fail(r, 400, "Please select specific branch and year")
         ELSE [r EXCEPT !.pc = "create"]]
  /\ UNCHANGED <<storeVars, resp>>

\* createNotice: Notice.create with the schema's enums; then the upload of
\* the files when there are any, else 201.  No notification is created: the
\* handler does not call createNotifications.
createNoticeCreate(s) ==
  LET r == reqs[s] IN
  /\ r.op = "createNotice" /\ r.pc = "create"
  /\ IF r.body.branch \notin NoticeBranchEnum
        \/ r.body.year \notin NoticeYearEnum
       THEN /\ notices' = notices
            /\ reqs' = [reqs EXCEPT ![s] = Fail(r, 500, "error.message")]
       ELSE /\ notices' =
                 [n \in DOMAIN notices \cup {NewNoticeId} |->
                   IF n \in DOMAIN notices THEN notices[n]
                   ELSE [teacher |-> r.user, branch |-> r.body.branch,
                         year |-> r.body.year, attachments |-> FALSE]]
            /\ reqs' = [reqs EXCEPT ![s] =
                 IF r.body.files
                   THEN [r EXCEPT !.pc = "upload", !.made = NewNoticeId]
                   ELSE [Respond(r, 201, "na") EXCEPT !.made = NewNoticeId]]
  /\ UNCHANGED <<users, videos, playlists, comments, likes, views, reports,
                 notifications, resp>>

\* createNotice: the uploads under Promise.all and notice.save(); a
\* rejected upload lands in the catch, which answers 500 with the notice
\* stored.
createNoticeUpload(s, cloud) ==
  LET r == reqs[s] IN
  /\ r.op = "createNotice" /\ r.pc = "upload"
  /\ IF cloud = "ok" /\ r.made \in DOMAIN notices
       THEN /\ notices' = [notices EXCEPT ![r.made].attachments = TRUE]
            /\ reqs' = [reqs EXCEPT ![s] = Respond(r, 201, "na")]
       ELSE /\ notices' = notices
            /\ reqs' = [reqs EXCEPT ![s] = Fail(r, 500, "error.message")]
  /\ UNCHANGED <<users, videos, playlists, comments, likes, views, reports,
                 notifications, resp>>

\* The bodies of createNotice requests.
NoticeInputs ==
  [complete : BOOLEAN, branch : {"CSE", "ECE", "All"}, year : {"2nd", "All"},
   files : BOOLEAN]

NoticeUsers == {"t1", "s1"}

\* The notifications as the request of each slot found them when it was
\* received.
InboxNext ==
  [s \in Slots |->
    IF Free(s) /\ reqs'[s] # reqs[s] THEN notifications ELSE inbox[s]]

\* A step of the program seen by the observer of new notifications.
ObsInbox(A) ==
  A /\ inbox' = InboxNext
    /\ UNCHANGED <<trail, viewers, disturbed, refused, before, tokens,
                  notes, admins>>

\* One client at a time posts notices; posted notices are deleted.
NextNotice ==
  \/ \E u \in NoticeUsers, body \in NoticeInputs :
        ObsInbox(createNotice(1, u, body))
  \/ ObsInbox(createNoticeCreate(1))
  \/ \E cloud \in CloudCalls : ObsInbox(createNoticeUpload(1, cloud))
  \/ \E u \in NoticeUsers, n \in {"n1", "n2"}, cloud \in CloudCalls :
        ObsInbox(deleteNotice(u, n, cloud))

SpecNotice == Init /\ [][NextNotice]_vars

\* The notifications of type notice_posted that student st has received
\* since the request of slot s was received.
NewNoticePosted(s, st) ==
  {n \in notifications \ inbox[s] :
     n.recipient = st /\ n.type = "notice_posted"}

\* C18: a createNotice request of a teacher with a complete body that
\* targets branch CSE and year All succeeds (unless an upload of its files
\* failed), and once it has, every approved student of branch CSE, whatever
\* the year, has exactly one new notification of type notice_posted and no
\* student of another branch has one.
C18_NoticeReachesCohort ==
  \A s \in Slots :
    (/\ reqs[s].op = "createNotice" /\ reqs[s].pc = "done"
     /\ reqs[s].user \in DOMAIN users
     /\ users[reqs[s].user].role = "teacher"
     /\ users[reqs[s].user].isApproved
     /\ reqs[s].body.complete
     /\ reqs[s].body.branch = "CSE" /\ reqs[s].body.year = "All"
     /\ ~(reqs[s].body.files /\ reqs[s].status = 500)) =>
      /\ reqs[s].status = 201
      /\ \A st \in StudentIds :
           Cardinality(NewNoticePosted(s, st)) =
             IF users[st].isApproved /\ users[st].branch = "CSE"
               THEN 1 ELSE 0

-----------------------------------------------------------------------------
(* Likes and the notification of the video owner *)

\* One client at a time toggles likes, seen by the observer of new
\* notifications.
NextLikeInbox ==
  \/ \E u \in LikeUsers, v \in VideoIds : ObsInbox(toggleLike(1, u, v))
  \/ \E u \in LikeUsers, v \in VideoIds : ObsInbox(likeVideo(1, u, v))
  \/ ObsInbox(toggleLikeWrite(1))
  \/ ObsInbox(toggleLikeNotify(1))
  \/ ObsInbox(likeVideoWrite(1))
  \/ ObsInbox(likeVideoNotify(1))

SpecLikeInbox == InitLedger /\ [][NextLikeInbox]_vars

\* The like toggle of slot s has ended and it created the Like row of its
\* pair: it found none and the row is stored.
CreatedLike(s) ==
  /\ reqs[s].op \in LikeOps /\ reqs[s].pc = "done"
  /\ reqs[s].found = 0
  /\ \E row \in likes :
       row.video = reqs[s].target /\ row.user = reqs[s].user

\* The like toggle of slot s has ended and it removed the Like row it found.
RemovedLike(s) ==
  /\ reqs[s].op \in LikeOps /\ reqs[s].pc = "done"
  /\ reqs[s].found # 0 /\ reqs[s].status = 200

\* C19: a like toggle that created a Like row has created exactly one
\* notification, addressed to the teacher who owns the video, when the liker
\* is not the owner, and none when the liker is the owner; a like toggle
\* that removed a Like row has created none.
C19_OneNotificationPerLike ==
  \A s \in Slots :
    LET new == notifications \ inbox[s] IN
    /\ (CreatedLike(s) /\ videos[reqs[s].target].teacher # reqs[s].user) =>
         /\ Cardinality(new) = 1
         /\ \A n \in new : n.recipient = videos[reqs[s].target].teacher
    /\ (CreatedLike(s) /\ videos[reqs[s].target].teacher = reqs[s].user) =>
         new = {}
    /\ RemovedLike(s) => new = {}

-----------------------------------------------------------------------------
(* Accounts: registration, login, approval and the protected routes *)

\* The _id values User.create hands out, in this order.
UserPool == <<"u1", "u2">>

\* The email addresses of request bodies; "ea" is the admin's.
Emails == {"ea", "e1", "e2"}
RegisterEmails == {"e1", "e2"}
LoginEmails == Emails \cup {""}
\* The role of a register body: one of the schema's enum, or none.
RegisterRoles == {"student", "teacher", "admin", "none"}
RoleEnum == {"student", "teacher", "admin"}

\* Notification.create is called at most this many times.
MaxNotifications == 2

\* Admin a1 is the only stored user.
InitAuthUsers ==
  [u \in {"a1"} |->
    [role |-> "admin", branch |-> "", year |-> "", isApproved |-> TRUE,
     email |-> "ea"]]

InitAuth == InitAll(InitAuthUsers, InitVideos("CSE", "2nd", {}), InitComments)

UserByEmail(email) == {u \in DOMAIN users : users[u].email = email}

\* A new ObjectId: the first of the pool that no user and no token holds.
UserIdLeft ==
  \E i \in DOMAIN UserPool : UserPool[i] \notin DOMAIN users \cup tokens

NewUserId ==
  UserPool[CHOOSE i \in DOMAIN UserPool :
             /\ UserPool[i] \notin DOMAIN users \cup tokens
             /\ \A j \in 1 .. (i - 1) :
                  UserPool[j] \in DOMAIN users \cup tokens]

\* A register that stores the isApproved of the body.
RegisterApproval_FromBody(role, isApproved) == isApproved

\* isApproved: role === 'student'; the isApproved of the body is not read.
RegisterApproval(role, isApproved) == role = "student"

\* POST /api/auth/register: 400 when the email is taken, when the upload of
\* the profile picture fails or when User.create fails validation (without a
\* role the default role student requires a branch that is not copied); else
\* User.create, and a token for the new user whatever its role.
register(email, role, isApproved, cloud) ==
  LET code == IF UserByEmail(email) # {} THEN 400
              ELSE IF cloud = "fail" THEN 400
              ELSE IF role \notin RoleEnum THEN 400
              ELSE 201 IN
  /\ UserIdLeft
  /\ users' =
       IF code = 201
         THEN [u \in DOMAIN users \cup {NewUserId} |->
                IF u \in DOMAIN users THEN users[u]
                ELSE [role |-> role,
                      branch |-> IF role = "student" THEN "CSE" ELSE "",
                      year |-> IF role = "student" THEN "2nd" ELSE "",
                      isApproved |-> RegisterApproval(role, isApproved),
                      email |-> email]]
         ELSE users
  /\ tokens' = IF code = 201 THEN tokens \cup {NewUserId} ELSE tokens
  /\ resp' = Answer("register", IF code = 201 THEN NewUserId ELSE "none",
                    email, code)
  /\ UNCHANGED <<videos, playlists, notices, comments, likes, views, reports,
                 notifications, reqs>>

\* res.status(code).json({success: false, error: msg}) of a one-step handler
AnswerError(op, u, target, code, msg) ==
  [op |-> op, user |-> u, target |-> target, status |-> code, error |-> msg]

\* The passwords of request bodies: none, the user's own, another.
Passwords == {"", "ok", "bad"}

\* The status and the error of a login: 400 without email or password, 401
\* for an unknown email or a wrong password, 403 for a user who is not
\* approved, else 200.
LoginOutcome(email, password) ==
  LET found == UserByEmail(email)
      u == CHOOSE x \in found : TRUE IN
  IF email = "" \/ password = ""
    THEN <<400, "Please provide email and password">>
  ELSE IF found = {} THEN <<401, "Invalid credentials">>
  ELSE IF password # "ok" THEN <<401, "Invalid credentials">>
  ELSE IF ~users[u].isApproved
    THEN <<403, "Your account is pending approval. Please wait for admin approval.">>
  ELSE <<200, "none">>

\* A login that issues the token without looking at isApproved.
login_NoApprovalCheck(email, password) ==
  LET found == UserByEmail(email)
      u == CHOOSE x \in found : TRUE
      out == LoginOutcome(email, password)
      code == IF out[1] = 403 THEN 200 ELSE out[1] IN
  /\ tokens' = IF code = 200 THEN tokens \cup {u} ELSE tokens
  /\ resp' = AnswerError("login", IF code = 200 THEN u ELSE "none", email,
                         code, IF code = 200 THEN "none" ELSE out[2])
  /\ UNCHANGED <<storeVars, reqs>>

\* POST /api/auth/login: the outcome above, and a token for the user on 200.
login(email, password) ==
  LET found == UserByEmail(email)
      u == CHOOSE x \in found : TRUE
      out == LoginOutcome(email, password) IN
  /\ tokens' = IF out[1] = 200 THEN tokens \cup {u} ELSE tokens
  /\ resp' = AnswerError("login", IF out[1] = 200 THEN u ELSE "none", email,
                         out[1], out[2])
  /\ UNCHANGED <<storeVars, reqs>>

\* GET /api/auth/me: protect, then getMe answers the user.
getMe(u) ==
  /\ resp' = Answer("getMe", u, "none",
                    IF Protect(u) # 0 THEN Protect(u) ELSE 200)
  /\ UNCHANGED <<storeVars, reqs, tokens>>

\* router.use(protect); router.use(authorize('admin')) of the user routes
UserGate(u) == IF Protect(u) # 0 THEN Protect(u) ELSE Authorize(u, {"admin"})

\* The role of an updateUser body: absent, one of the enum, or another.
UpdateRoles == {"none", "student", "admin", "bogus"}

\* PUT /api/users/:id: User.findByIdAndUpdate with the role (when the body
\* has one) and the isApproved of the body, validators run, so a role outside
\* the enum is a 500 and no write; the notification is guarded by a
\* comparison of the body's value with the updated document, which never
\* differ.
updateUser(u, id, role, isApproved) ==
  LET code == IF UserGate(u) # 0 THEN UserGate(u)
              ELSE IF role \notin RoleEnum \cup {"none"} THEN 500
              ELSE IF id \notin DOMAIN users THEN 404
              ELSE 200 IN
  /\ users' = IF code = 200
                THEN [users EXCEPT
                        ![id].isApproved = isApproved,
                        ![id].role = IF role = "none" THEN @ ELSE role]
                ELSE users
  /\ resp' = Answer("updateUser", u, id, code)
  /\ UNCHANGED <<videos, playlists, notices, comments, likes, views, reports,
                 notifications, reqs, tokens>>

\* A deleteUser with no check of the target's role.
deleteUser_NoAdminCheck(u, id) ==
  LET code == IF UserGate(u) # 0 THEN UserGate(u)
              ELSE IF id \notin DOMAIN users THEN 404
              ELSE 200 IN
  /\ users' = IF code = 200 THEN Without(users, id) ELSE users
  /\ resp' = Answer("deleteUser", u, id, code)
  /\ UNCHANGED <<videos, playlists, notices, comments, likes, views, reports,
                 notifications, reqs, tokens>>

\* DELETE /api/users/:id: 404, 403 for an admin, else user.deleteOne().
deleteUser(u, id) ==
  LET code == IF UserGate(u) # 0 THEN UserGate(u)
              ELSE IF id \notin DOMAIN users THEN 404
              ELSE IF users[id].role = "admin" THEN 403
              ELSE 200 IN
  /\ users' = IF code = 200 THEN Without(users, id) ELSE users
  /\ resp' = Answer("deleteUser", u, id, code)
  /\ UNCHANGED <<videos, playlists, notices, comments, likes, views, reports,
                 notifications, reqs, tokens>>

\* The notification bulkApproval creates for a user.
ApprovalNotification(id, isApproved) ==
  [recipient |-> id, type |-> "system_announcement",
   title |-> IF isApproved THEN "Account Approved" ELSE "Account Rejected",
   message |-> "Your account"]

\* The collection after one Notification.create per id of the list.
RECURSIVE ApprovalInserts(_, _)
ApprovalInserts(rows, ids) ==
  IF ids = <<>> THEN rows
  ELSE ApprovalInserts(
         rows \cup
           {[id |-> CHOOSE n \in 1 .. (Cardinality(rows) + 1) :
                      \A r \in rows : r.id # n,
             recipient |-> Head(ids), type |-> "system_announcement"]},
         Tail(ids))

\* The userIds a bulkApproval body carries.
UserIdsInputs == {<<>>, <<"u1">>, <<"u2">>, <<"u1", "u2">>}

\* PUT /api/users/approval: 404 when one of the ids is not stored, else
\* User.updateMany of isApproved and one notification per id.
bulkApproval(u, userIds, isApproved) ==
  LET code == IF UserGate(u) # 0 THEN UserGate(u)
              ELSE IF \E i \in DOMAIN userIds : userIds[i] \notin DOMAIN users
                THEN 404
              ELSE IF \E i \in DOMAIN userIds :
                        ~NotificationValid(
                           ApprovalNotification(userIds[i], isApproved))
                THEN 500
              ELSE 200 IN
  /\ Cardinality(notifications) + Len(userIds) <= MaxNotifications
  /\ users' =
       IF code \in {200, 500}
         THEN [x \in DOMAIN users |->
                IF x \in SeqRange(userIds)
                  THEN [users[x] EXCEPT !.isApproved = isApproved]
                  ELSE users[x]]
         ELSE users
  /\ notifications' =
       IF code = 200 THEN ApprovalInserts(notifications, userIds)
       ELSE notifications
  /\ resp' = Answer("bulkApproval", u, "none", code)
  /\ UNCHANGED <<videos, playlists, notices, comments, likes, views, reports,
                 reqs, tokens>>

\* A step of a handler that issues tokens, with no observer.
Session(A) ==
  A /\ UNCHANGED <<trail, viewers, disturbed, refused, before, inbox, notes,
                  admins>>

\* The tokens a request can carry: one that was issued, or none.
Bearers == tokens \cup {"none"}

\* Users register and log in, the admin approves, revokes and deletes, and
\* the holders of tokens call a protected route.
NextAuth ==
  \/ \E email \in RegisterEmails, role \in {"student", "teacher"},
        cloud \in CloudOutcomes : Session(register(email, role, FALSE, cloud))
  \/ \E email \in LoginEmails, password \in Passwords :
        Session(login(email, password))
  \/ \E u \in Bearers : Plain(getMe(u))
  \/ \E u \in Bearers, id \in DOMAIN users, isApproved \in BOOLEAN :
        Plain(updateUser(u, id, "none", isApproved))
  \/ \E u \in Bearers, id \in DOMAIN users : Plain(deleteUser(u, id))
  \/ \E u \in Bearers, userIds \in UserIdsInputs, isApproved \in BOOLEAN :
        Plain(bulkApproval(u, userIds, isApproved))

SpecAuth == InitAuth /\ [][NextAuth]_vars

\* The administration of accounts: one email registers with any role and any
\* isApproved in the body, users log in, and the holders of tokens call the
\* user routes, updateUser with and without a role in the body.
AdminEmails == {"e1"}
AdminIdsInputs == {<<>>, <<"u1">>, <<"a1", "u2">>}

\* The users stored with role admin, now or at an earlier step.
AdminsNext ==
  admins \cup {id \in DOMAIN users' : users'[id].role = "admin"}

\* A step of an account handler seen by the observer of admin accounts.
ObsAdmins(A) ==
  A /\ admins' = AdminsNext
    /\ UNCHANGED <<trail, viewers, disturbed, refused, before, inbox, notes>>

NextAdmin ==
  \/ \E email \in AdminEmails, role \in RegisterRoles, isApproved \in BOOLEAN :
        ObsAdmins(register(email, role, isApproved, "none"))
  \/ \E email \in LoginEmails, password \in Passwords :
        ObsAdmins(login(email, password))
  \/ \E u \in Bearers, id \in DOMAIN users, role \in UpdateRoles,
        isApproved \in BOOLEAN : ObsAdmins(updateUser(u, id, role, isApproved))
  \/ \E u \in Bearers, id \in DOMAIN users : ObsAdmins(deleteUser(u, id))
  \/ \E u \in Bearers, userIds \in AdminIdsInputs, isApproved \in BOOLEAN :
        ObsAdmins(bulkApproval(u, userIds, isApproved))

SpecAdmin == InitAuth /\ [][NextAdmin]_vars

-----------------------------------------------------------------------------
(* Claims about accounts *)

ProtectedOps == {"getMe", "updateUser", "deleteUser", "bulkApproval"}

\* C20: over the register, login, bulkApproval, updateUser, deleteUser and
\* protected requests, a request to a protected route gets past protect only
\* when the user its token names is stored and approved at that moment; a
\* token whose user is stored but not approved (a teacher since its
\* registration, or anyone since its approval was revoked) is answered 403
\* and a token whose user was deleted 401.
C20_OnlyStoredApprovedAdmitted ==
  [][resp'.op \in ProtectedOps =>
       /\ resp'.status \notin {401, 403} =>
            (resp'.user \in DOMAIN users /\ users[resp'.user].isApproved)
       /\ (resp'.op = "getMe" /\ resp'.user \in tokens) =>
            resp'.status =
              IF resp'.user \notin DOMAIN users THEN 401
              ELSE IF ~users[resp'.user].isApproved THEN 403
              ELSE 200
    ]_vars

\* The token issued at the registration of a teacher who is still not
\* approved has been refused with 403, while another issued token names a
\* user who has been deleted.
C20_Witness ==
  /\ resp.op = "getMe" /\ resp.status = 403
  /\ resp.user \in tokens /\ resp.user \in DOMAIN users
  /\ users[resp.user].role = "teacher" /\ ~users[resp.user].isApproved
  /\ \E t \in tokens : t \notin DOMAIN users

\* C21: login answers an unknown email and a wrong password with the same
\* status and the same error message, and it answers with the pending-approval
\* error, issuing no token, exactly when the email is stored, the password is
\* the user's and the user's isApproved is false.
C21_LoginRefusals ==
  [][\A email \in LoginEmails, password \in Passwords :
       login(email, password) =>
         LET found == UserByEmail(email)
             wrong == email # "" /\ password # "" /\
                      (found = {} \/ password # "ok")
             pending == /\ found # {} /\ password = "ok"
                        /\ \A u \in found : ~users[u].isApproved IN
         /\ wrong => (resp'.status = 401 /\ resp'.error = "Invalid credentials")
         /\ pending <=> resp'.status = 403
         /\ pending =>
              /\ resp'.error =
                   "Your account is pending approval. Please wait for admin approval."
              /\ tokens' = tokens
    ]_vars

\* A registered teacher who is still not approved has logged in with the
\* right password and got 403.
C21_Witness ==
  /\ resp.op = "login" /\ resp.status = 403
  /\ \E u \in UserByEmail(resp.target) :
       users[u].role = "teacher" /\ ~users[u].isApproved

\* C22: register stores the new user with isApproved true if and only if its
\* role is student, whatever isApproved the body carries, and a stored user
\* who is not approved becomes approved only by the updateUser or the
\* bulkApproval of an admin.
C22_ApprovedIffStudent ==
  [][/\ \A email \in AdminEmails, role \in RegisterRoles, b \in BOOLEAN :
          (register(email, role, b, "none") /\ resp'.status = 201) =>
            /\ users'[resp'.user].role = role
            /\ users'[resp'.user].isApproved <=> (role = "student")
     /\ \A id \in DOMAIN users :
          (~users[id].isApproved /\ id \in DOMAIN users' /\
           users'[id].isApproved) =>
            /\ resp'.op \in {"updateUser", "bulkApproval"}
            /\ resp'.user \in DOMAIN users
            /\ users[resp'.user].role = "admin"
    ]_vars

\* A teacher registered with isApproved true in the body is stored
\* unapproved.
C22_Witness ==
  /\ resp.op = "register" /\ resp.status = 201
  /\ users[resp.user].role = "teacher" /\ ~users[resp.user].isApproved

\* C23: a deleteUser whose target is stored with role admin is rejected,
\* whoever calls it, and leaves the users as they were.
C23_AdminDeleteRejected ==
  [][\A u \in Bearers, id \in DOMAIN users :
       (deleteUser(u, id) /\ users[id].role = "admin") =>
         (resp'.status \in {401, 403} /\ users' = users)
    ]_vars

\* An approved admin has asked for the deletion of an admin other than
\* themself and was answered 403.
C23_Witness ==
  /\ resp.op = "deleteUser" /\ resp.status = 403
  /\ resp.user \in DOMAIN users /\ resp.target \in DOMAIN users
  /\ resp.user # resp.target
  /\ users[resp.user].role = "admin" /\ users[resp.user].isApproved
  /\ users[resp.target].role = "admin"

\* C30: over the calls of updateUser, bulkApproval and deleteUser, a user who
\* is stored with role admin at some point is stored ever after.
C30_AdminNeverRemoved == admins \subseteq DOMAIN users

-----------------------------------------------------------------------------
(* View metrics and the watch history *)

\* The metrics of the bodies: absent or zero, and two numbers that are not.
MetricValues == {0, 5, -3}
MetricUsers == {"s2"}

\* One principal records views of one video, one call after another, the
\* three metrics of a body chosen independently.
NextMetrics ==
  \/ \E u \in MetricUsers, v \in VideoIds, wt \in MetricValues,
        cp \in MetricValues, lp \in MetricValues :
        ObsViewers(recordView(1, u, v, wt, cp, lp))
  \/ ObsViewers(recordViewWrite(1))
  \/ ObsViewers(recordViewInc(1))

SpecMetrics == InitLedger /\ [][NextMetrics]_vars

\* The value recordView is to leave in a metric: the input when it is not
\* zero, else what the rows held (0 when there was no row).
MetricExpected(input, rows, old) ==
  IF input # 0 THEN input
  ELSE IF rows = {} THEN 0
  ELSE old

\* C24: over a sequence of recordView calls of one principal on one video,
\* after each write the row's watchTime, completionPercentage and lastPosition
\* each equal the call's input when it is not zero and are otherwise as they
\* were, so no recorded metric is replaced by a zero or absent input.
C24_MetricsKept ==
  [][(recordViewWrite(1) /\ views' # views) =>
       LET r == reqs[1]
           rows == ViewRows(r.target, r.user)
           old == CHOOSE row \in rows : TRUE
           new == CHOOSE row \in ViewRows(r.target, r.user)' : TRUE IN
       /\ Cardinality(ViewRows(r.target, r.user)') = 1
       /\ new.wt = MetricExpected(r.wt, rows, old.wt)
       /\ new.cp = MetricExpected(r.cp, rows, old.cp)
       /\ new.lp = MetricExpected(r.lp, rows, old.lp)
       /\ rows # {} =>
            /\ old.wt # 0 => new.wt # 0
            /\ old.cp # 0 => new.cp # 0
            /\ old.lp # 0 => new.lp # 0
    ]_vars

\* A later call with watchTime zero, a new completionPercentage and no
\* lastPosition has been answered, and the row holds the earlier watchTime
\* and lastPosition and the new completionPercentage.
C24_Witness ==
  /\ reqs[1].op = "recordView" /\ reqs[1].pc = "done" /\ reqs[1].status = 200
  /\ reqs[1].found # 0
  /\ reqs[1].wt = 0 /\ reqs[1].cp = -3 /\ reqs[1].lp = 0
  /\ \E row \in ViewRows(reqs[1].target, reqs[1].user) :
       row.wt = 5 /\ row.cp = -3 /\ row.lp = 5

\* The view counter the model lets a video reach.
MaxViews == 3

\* clearWatchHistory: VideoView.deleteMany({user}); the counters of the
\* videos are left as they are.
clearWatchHistory(u) ==
  LET code == IF Protect(u) # 0 THEN Protect(u) ELSE 200 IN
  /\ views' = IF code = 200 THEN {row \in views : row.user # u} ELSE views
  /\ resp' = Answer("clearWatchHistory", u, "none", code)
  /\ UNCHANGED <<users, videos, playlists, notices, comments, likes, reports,
                 notifications, reqs>>

HistoryUsers == {"s1", "s2"}

\* Principals record views and clear their watch history, one call after
\* another.
NextHistory ==
  \/ \E u \in HistoryUsers, v \in VideoIds, wt \in MetricInputs :
        /\ videos[v].views < MaxViews
        /\ ObsViewers(recordView(1, u, v, wt, 0, 0))
  \/ ObsViewers(recordViewWrite(1))
  \/ ObsViewers(recordViewInc(1))
  \/ \E u \in HistoryUsers : Free(1) /\ ObsViewers(clearWatchHistory(u))

SpecHistory == InitLedger /\ [][NextHistory]_vars

\* C26: over the recordView and clearWatchHistory calls, the view counter of
\* a video never exceeds the number of distinct principals that have called
\* recordView on it.
C26_OncePerPrincipal ==
  \A v \in VideoIds : videos[v].views <= Cardinality(Callers(v))

-----------------------------------------------------------------------------
(* Paginated listings *)

\* The values of the page and limit parameters of a query string.
QueryValues == {"absent", "abc", "0", "-1", "1", "2"}

\* The number of documents that match the query of a listing.
MaxTotal == 11

NaN == [nan |-> TRUE, n |-> 0]

Num(n) == [nan |-> FALSE, n |-> n]

\* parseInt of a query value, the destructuring default d standing in for an
\* absent parameter only.
ParseInt(q, d) ==
  CASE q = "absent" -> Num(d)
    [] q = "0" -> Num(0)
    [] q = "-1" -> Num(-1)
    [] q = "1" -> Num(1)
    [] q = "2" -> Num(2)
    [] OTHER -> NaN

\* (parseInt(page) - 1) * parseInt(limit)
SkipOf(page, limit) ==
  IF page.nan \/ limit.nan THEN NaN ELSE Num((page.n - 1) * limit.n)

\* What the database does with a NaN skip or limit: it rejects the query, or
\* it reads the value as 0.
NaNOutcomes == {"error", "zero"}

Min(a, b) == IF a <= b THEN a ELSE b

Max(a, b) == IF a >= b THEN a ELSE b

\* find(query).skip(skip).limit(limit) on total matching documents: an error
\* for a negative skip, no limit for limit 0, the absolute value for a
\* negative limit; the result is <<status, documents skipped, documents
\* returned>>.
FindSkipLimit(skip, limit, total, onNaN) ==
  IF (skip.nan \/ limit.nan) /\ onNaN = "error" THEN <<500, 0, 0>>
  ELSE LET sk == IF skip.nan THEN 0 ELSE skip.n
           lm == IF limit.nan THEN 0
                 ELSE IF limit.n < 0 THEN 0 - limit.n ELSE limit.n
           left == Max(total - sk, 0) IN
       IF sk < 0 THEN <<500, 0, 0>>
       ELSE <<200, Min(sk, total), IF lm = 0 THEN left ELSE Min(lm, left)>>

\* getNotifications (and, with the same lines, getLikes, getUserLikes,
\* getVideoViews, getWatchHistory, getAllUsers, getPlaylists, getNotes and
\* search): page = 1 and limit = 10 when absent, parseInt of both, the query
\* with skip and limit, 500 from the catch.
getNotifications(u, page, limit, total, onNaN) ==
  LET pg == ParseInt(page, 1)
      lm == ParseInt(limit, 10)
      out == FindSkipLimit(SkipOf(pg, lm), lm, total, onNaN) IN
  /\ resp' = [op |-> "getNotifications", user |-> u, target |-> "none",
              status |-> IF Protect(u) # 0 THEN Protect(u) ELSE out[1],
              page |-> page, limit |-> limit, total |-> total,
              skipped |-> out[2], count |-> out[3]]
  /\ UNCHANGED <<storeVars, reqs>>

PagingUsers == {"s1"}

NextPaging ==
  \E u \in PagingUsers, page \in QueryValues, limit \in QueryValues,
     total \in 0 .. MaxTotal, onNaN \in NaNOutcomes :
     Plain(getNotifications(u, page, limit, total, onNaN))

SpecPaging == Init /\ [][NextPaging]_vars

\* The positive integer a parameter stands for, d when it is missing, not a
\* number or not positive.
Effective(q, d) ==
  LET v == ParseInt(q, d) IN
  IF v.nan \/ v.n <= 0 THEN d ELSE v.n

\* C25: a listing reads a missing, non-numeric or non-positive page as 1 and
\* such a limit as 10, skips (page - 1) * limit documents and returns at most
\* limit of the rest.
C25_PageAndLimitDefaults ==
  resp.op = "getNotifications" =>
    LET pg == Effective(resp.page, 1)
        lm == Effective(resp.limit, 10)
        sk == (pg - 1) * lm IN
    /\ resp.status = 200
    /\ resp.skipped = Min(sk, resp.total)
    /\ resp.count = Min(lm, Max(resp.total - sk, 0))

-----------------------------------------------------------------------------
(* Replies written while their thread is deleted *)

\* deleteComment: Comment.deleteMany or Comment.findByIdAndDelete rejects
\* (the connection to the database failed); the catch answers 500 and
\* nothing is restored.
deleteCommentFails(s) ==
  LET r == reqs[s] IN
  /\ r.op = "deleteComment" /\ r.pc \in {"deleteMany", "delete"}
  /\ reqs' = [reqs EXCEPT ![s] = Fail(r, 500, "error.message")]
  /\ UNCHANGED <<storeVars, resp>>

RaceWriters == {"s2"}
RaceDeleters == {"s1"}

\* Replies to comment c1 are written while its author deletes it, the
\* requests interleaving at their awaits.
NextThreadRace ==
  \E s \in Slots :
    \/ \E u \in RaceWriters, v \in VideoIds, parent \in CommentIds :
          ObsBefore(createComment(s, u, v, "text", parent))
    \/ ObsBefore(createCommentWrite(s))
    \/ \E u \in RaceDeleters, c \in CommentIds :
          ObsBefore(deleteComment(s, u, c))
    \/ ObsBefore(deleteCommentMany(s))
    \/ ObsBefore(deleteCommentDelete(s))
    \/ ObsBefore(deleteCommentFails(s))

SpecThreadRace == Init /\ [][NextThreadRace]_vars

\* The deleteComment of slot s has deleted the replies of its comment and
\* not yet the comment, and the createComment of slot t has stored a reply to
\* that comment since.
StoredBetween(s, t) ==
  /\ reqs[s].op = "deleteComment" /\ reqs[s].pc = "delete"
  /\ reqs[t].op = "createComment" /\ reqs[t].pc = "done"
  /\ reqs[t].status = 201 /\ reqs[t].parent = reqs[s].target
  /\ reqs[t].made \in DOMAIN comments
  /\ comments[reqs[t].made].parentComment = reqs[s].target

\* The deleteComment of slot s has answered 200 and no request is in flight.
BothFinished(s) ==
  /\ reqs[s].op = "deleteComment" /\ reqs[s].pc = "done"
  /\ reqs[s].status = 200
  /\ \A t \in Slots : ~InFlight(t)

\* The replies a failed deleteComment found are stored while its comment is.
NoReplyLost(s) ==
  (/\ reqs[s].op = "deleteComment" /\ reqs[s].pc = "done"
   /\ reqs[s].status = 500 /\ reqs[s].target \in DOMAIN comments) =>
    \A x \in DOMAIN before[s] :
      before[s][x].parentComment = reqs[s].target => x \in DOMAIN comments

\* C27: when a reply to a top-level comment c is stored between the two
\* deletes of a deleteComment of c, then once both calls have finished no
\* stored comment has parentComment c; and when deleteComment fails while c
\* stays stored, the replies of c it found are still stored.
C27_NoOrphanNoLoss ==
  /\ \A s \in Slots, t \in Slots :
       [](StoredBetween(s, t) =>
            [](BothFinished(s) =>
                 \A x \in DOMAIN comments :
                   comments[x].parentComment # reqs[s].target))
  /\ [](\A s \in Slots : NoReplyLost(s))

-----------------------------------------------------------------------------
(* The access checks of the handlers that gate a student on a video *)

\* createNote: hasAccess = video.isApproved && (branch and year equal) ||
\* specialAccess.includes(id) || true.
CreateNoteHasAccess(u, v) ==
  \/ /\ VideoIsApproved(v)
     /\ videos[v].branch = users[u].branch
     /\ videos[v].year = users[u].year
  \/ u \in videos[v].specialAccess
  \/ TRUE

\* POST /api/notes with a videoId: protect, authorize('student'),
\* Video.findById, the access check, then the note of (student, video) is
\* updated or created; 201.
createNote(u, v) ==
  LET code == IF Protect(u) # 0 THEN Protect(u)
              ELSE IF Authorize(u, {"student"}) # 0
                THEN Authorize(u, {"student"})
              ELSE IF v \notin DOMAIN videos THEN 404
              ELSE IF ~CreateNoteHasAccess(u, v) THEN 403
              ELSE 201 IN
  /\ notes' = IF code = 201 THEN notes \cup {[student |-> u, video |-> v]}
              ELSE notes
  /\ resp' = Answer("createNote", u, v, code)
  /\ UNCHANGED <<storeVars, reqs, tokens>>

\* getLikes: protect, Video.findById, the access check of toggleLike, then
\* the page of likes.
getLikes(u, v) ==
  LET code == IF Protect(u) # 0 THEN Protect(u)
              ELSE IF v \notin DOMAIN videos THEN 404
              ELSE IF users[u].role = "student" /\ ~ToggleLikeHasAccess(u, v)
                THEN 403
              ELSE 200 IN
  /\ resp' = Answer("getLikes", u, v, code)
  /\ UNCHANGED <<storeVars, reqs, tokens, notes>>

\* The query of getVideos: for a student the videos whose branch and year
\* equal the student's or whose specialAccess holds the student's id, for a
\* teacher the teacher's own, else all.
GetVideosQuery(u) ==
  {v \in DOMAIN videos :
     CASE users[u].role = "student" ->
            \/ /\ videos[v].branch = users[u].branch
               /\ videos[v].year = users[u].year
            \/ u \in videos[v].specialAccess
       [] users[u].role = "teacher" -> videos[v].teacher = u
       [] OTHER -> TRUE}

\* GET /api/videos of the protected router.
getVideos(u) ==
  /\ resp' = [op |-> "getVideos", user |-> u, target |-> "none",
              status |-> IF Protect(u) # 0 THEN Protect(u) ELSE 200,
              data |-> IF Protect(u) # 0 THEN {} ELSE GetVideosQuery(u)]
  /\ UNCHANGED <<storeVars, reqs, tokens, notes>>

\* A step of a handler that writes notes, with no observer.
Notebook(A) ==
  A /\ UNCHANGED <<trail, viewers, disturbed, refused, before, inbox, admins>>

GateBranches == {"CSE", "ECE"}
GateUsers == {"s1", "s2"}

\* Video v1 for one of the cohorts, with or without s2 on its allow-list.
InitGate ==
  \E b \in GateBranches, access \in SUBSET {"s2"} :
    InitWith(InitVideos(b, "2nd", access))

\* Students call the handlers that check access to a video,
\* and the admin replaces the allow-list.
NextGate ==
  \/ \E u \in GateUsers, v \in VideoIds : Plain(getVideo(u, v))
  \/ \E u \in GateUsers : Plain(getVideos(u))
  \/ \E u \in GateUsers, v \in VideoIds : Plain(toggleLike(1, u, v))
  \/ Plain(toggleLikeWrite(1))
  \/ Plain(toggleLikeNotify(1))
  \/ \E u \in GateUsers, v \in VideoIds : Plain(getLikes(u, v))
  \/ \E u \in GateUsers, v \in VideoIds : Notebook(createNote(u, v))
  \/ \E v \in VideoIds, ids \in StudentIdsInputs :
        Plain(updateSpecialAccess("a1", v, ids))

SpecGate == InitGate /\ [][NextGate]_vars

\* C28: for every stored student and every stored video, getVideo, toggleLike
\* and getLikes, and createNote reach the same decision from the stored
\* student and video, and getVideos lists for the student exactly the videos
\* for which the decision is to allow.
C28_SameDecision ==
  \A u \in DOMAIN users, v \in DOMAIN videos :
    users[u].role = "student" =>
      LET allow == GetVideoHasAccess(u, v) IN
      /\ ToggleLikeHasAccess(u, v) = allow
      /\ CreateNoteHasAccess(u, v) = allow
      /\ (v \in GetVideosQuery(u)) = allow

-----------------------------------------------------------------------------
(* Search *)

\* The query parameter: absent, a text the title of v1 matches, a text no
\* title or description matches.
SearchTexts == {"", "title", "other"}

\* The videos whose title or description matches the text.
TextMatches(text) == IF text = "title" THEN DOMAIN videos ELSE {}

\* What the filter isApproved: true of a Video query selects: Video has no
\* isApproved path, so under strictQuery the condition is dropped from the
\* filter and otherwise it is matched against the stored documents, none of
\* which has the field.
StrictQueryOutcomes == BOOLEAN

\* The videos Video.find(searchQuery) selects for the user: for a student the
\* filter is {$or: [title, description, branch in ['All', branch], year in
\* ['All', year], specialAccess: id], isApproved: true}; for the others the
\* two text conditions alone.
SearchQuery(u, text, strictQuery) ==
  {v \in DOMAIN videos :
     IF users[u].role = "student"
       THEN /\ \/ v \in TextMatches(text)
               \/ videos[v].branch \in {"All", users[u].branch}
               \/ videos[v].year \in {"All", users[u].year}
               \/ u \in videos[v].specialAccess
            /\ strictQuery \/ VideoIsApproved(v)
       ELSE v \in TextMatches(text)}

\* The answer of search and of getSuggestions: 400 without a query, else
\* the videos of the query.
SearchAnswer(op, u, text, strictQuery) ==
  LET code == IF Protect(u) # 0 THEN Protect(u)
              ELSE IF text = "" THEN 400
              ELSE 200 IN
  [op |-> op, user |-> u, target |-> text, status |-> code,
   data |-> IF code = 200 THEN SearchQuery(u, text, strictQuery) ELSE {}]

\* GET /api/search: protect, then search.
search(u, text, strictQuery) ==
  /\ resp' = SearchAnswer("search", u, text, strictQuery)
  /\ UNCHANGED <<storeVars, reqs>>

\* GET /api/search/suggestions: protect, then getSuggestions, whose video
\* query is built as that of search.
getSuggestions(u, text, strictQuery) ==
  /\ resp' = SearchAnswer("getSuggestions", u, text, strictQuery)
  /\ UNCHANGED <<storeVars, reqs>>

SearchUsers == {"s1", "s2", "t1"}
SearchYears == {"2nd", "3rd"}

\* Video v1 for one of the cohorts, with or without s2 on its allow-list.
InitSearch ==
  \E b \in GateBranches, y \in SearchYears, access \in SUBSET {"s2"} :
    InitWith(InitVideos(b, y, access))

NextSearch ==
  \/ \E u \in SearchUsers, text \in SearchTexts,
        strictQuery \in StrictQueryOutcomes :
        Plain(search(u, text, strictQuery))
  \/ \E u \in SearchUsers, text \in SearchTexts,
        strictQuery \in StrictQueryOutcomes :
        Plain(getSuggestions(u, text, strictQuery))

SpecSearch == InitSearch /\ [][NextSearch]_vars

\* C29: every video search or getSuggestions returns to a student is one the
\* student may view: approved and of the student's cohort, or with the
\* student on its allow-list.
C29_SearchShowsOnlyViewable ==
  (/\ resp.op \in {"search", "getSuggestions"}
   /\ resp.status = 200
   /\ users[resp.user].role = "student") =>
    \A v \in resp.data : VisibleByRule(resp.user, v)

=============================================================================
